---------------------------- MODULE Spec2Model ----------------------------
(***************************************************************************)
(* CampfireDevTeam: the staged Party Box pipeline (riverboat), its         *)
(* processing campfires (unloading, security, offloading), the manifest    *)
(* driven GenericCampfire and the hard-wired DevTeamCampfire.              *)
(*                                                                         *)
(* Text is abstracted to what the code looks at: a path is the sequence of *)
(* its "/"-separated segments, a content is its byte size plus the rule    *)
(* categories whose regular expressions match it, a generated text is the  *)
(* list of code blocks and commands the extractors find in it.             *)
(***************************************************************************)
EXTENDS Integers, Sequences, FiniteSets, TLC

(***************************************************************************)
(* Bounds of the model.                                                    *)
(***************************************************************************)
MaxRequests == 2
MaxTicks == 1

(***************************************************************************)
(* Program constants.                                                      *)
(***************************************************************************)
CacheTTL == 1800
GateThreshold == 70
FailedConfidence == 10
CamperConfidence == 80
AuditorConfidence == 90
BlockedAuditConfidence == 30
FallbackAnalysisConfidence == 30
FallbackConfidence == 50
DefaultThreshold == 70

NoneVal == "None"

(***************************************************************************)
(* Generic helpers.                                                        *)
(***************************************************************************)
RECURSIVE ConcatAll(_)
ConcatAll(ss) == IF ss = <<>> THEN <<>> ELSE Head(ss) \o ConcatAll(Tail(ss))

Range(s) == {s[i] : i \in 1..Len(s)}

IsPrefix(s, t) == Len(s) <= Len(t) /\ \A i \in 1..Len(s) : s[i] = t[i]

(***************************************************************************)
(* Paths.  A path string is modelled by its split on "/": "/etc/x" is      *)
(* <<"", "etc", "x">>, "src/.." is <<"src", "..">>.                        *)
(***************************************************************************)

\* re.search(r'\.\./', p): some segment that is followed by "/" ends in "..".
\* re.search(r'\.\.\\' | r'\.\.%2f' | r'\.\.%5c', p): inside one segment.
EndsWithDotDot(seg) == seg \in {".."}
HasEscapedTraversal(seg) == seg \in {"..\\etc", "..%2fetc"}

MatchesTraversalRule(p) ==
    \/ \E i \in 1..(Len(p) - 1) : EndsWithDotDot(p[i])
    \/ \E i \in 1..Len(p) : HasEscapedTraversal(p[i])

\* file_path.startswith('/') or (len(file_path) > 1 and file_path[1] == ':')
StartsWithSlash(p) == Len(p) >= 2 /\ p[1] = ""
HasDriveColon(p) == Len(p) >= 1 /\ p[1] \in {"C:"}
IsAbsolutePath(p) == StartsWithSlash(p) \/ HasDriveColon(p)

\* '\x00' in file_path
HasNullByte(p) == \E i \in 1..Len(p) : p[i] \in {"a\\x00"}

\* SecurityCampfire._validate_path_traversal, the errors of one path
PathTraversalErrorsOf(p) ==
    (IF MatchesTraversalRule(p)
        THEN << [check |-> "path_traversal", kind |-> "traversal", path |-> p] >>
        ELSE <<>>)
    \o (IF IsAbsolutePath(p)
        THEN << [check |-> "path_traversal", kind |-> "absolute", path |-> p] >>
        ELSE <<>>)
    \o (IF HasNullByte(p)
        THEN << [check |-> "path_traversal", kind |-> "null_byte", path |-> p] >>
        ELSE <<>>)

validate_path_traversal(file_paths) ==
    ConcatAll([i \in 1..Len(file_paths) |-> PathTraversalErrorsOf(file_paths[i])])

\* pathlib: an absolute right operand replaces the left one.
JoinPath(base, p) == IF StartsWithSlash(p) THEN Tail(p) ELSE base \o p

\* The server's file system as Path.resolve() sees it: a set of symbolic
\* links, each from a normalised absolute path to a normalised absolute path.
\* Path.resolve(): drop "" and ".", pop on "..", follow a link when the
\* path walked so far is one.
RECURSIVE Walk(_, _, _)
Walk(done, rest, links) ==
    IF rest = <<>> THEN done
    ELSE LET s == Head(rest) IN
         IF s \in {"", "."} THEN Walk(done, Tail(rest), links)
         ELSE IF s = ".."
              THEN Walk(IF done = <<>> THEN <<>> ELSE SubSeq(done, 1, Len(done) - 1),
                        Tail(rest), links)
              ELSE LET next == Append(done, s) IN
                   IF \E l \in links : l.from = next
                   THEN Walk((CHOOSE l \in links : l.from = next).to, Tail(rest), links)
                   ELSE Walk(next, Tail(rest), links)

Resolve(absSegs, links) == Walk(<<>>, absSegs, links)

\* str.startswith on two names of the segment alphabet.
NameStartsWith(a, b) == a = b \/ <<a, b>> \in {<<"ws2", "ws">>}

\* str(file_full_path).startswith(str(workspace_path)) on normalised
\* absolute paths: "/" + "/".join(segments).
StrStartsWith(full, root) ==
    \/ root = <<>>
    \/ /\ Len(full) >= Len(root)
       /\ \A i \in 1..(Len(root) - 1) : full[i] = root[i]
       /\ NameStartsWith(full[Len(root)], root[Len(root)])

\* A descendant of (or equal to) the root, segment by segment.
IsInside(full, root) == IsPrefix(root, full)

(***************************************************************************)
(* Envelopes.  An attachment is [path, content, type]; a content is        *)
(* [bytes, cats, flags]: its UTF-8 size, the rule categories of            *)
(* validation_rules with a matching pattern, and the structural findings.  *)
(* A task is [text, cats, suspicious].                                     *)
(***************************************************************************)
max_file_size == 10 * 1024 * 1024
max_total_size == 50 * 1024 * 1024
max_files == 100
allowed_file_extensions ==
    {".py", ".js", ".ts", ".html", ".css", ".json", ".yaml", ".yml",
     ".md", ".txt", ".sh", ".bat", ".ps1", ".sql", ".xml", ".csv"}

\* validation_rules, in the dict's insertion order
RuleCategories ==
    << "path_traversal", "system_paths", "dangerous_commands", "code_injection",
       "network_access", "file_system", "sensitive_data" >>

\* Path(file_path).suffix.lower(), by the last segment
SuffixOfName(seg) ==
    CASE seg \in {"app.py", "b.py"} -> ".py"
      [] seg = "run.exe" -> ".exe"
      [] seg = "..\\etc" -> ".\\etc"
      [] seg = "..%2fetc" -> ".%2fetc"
      [] OTHER -> ""
PathSuffix(p) == IF p = <<>> THEN "" ELSE SuffixOfName(p[Len(p)])

\* type_mapping.get(file_ext, 'text/plain').split('/')[0]
ExpectedMajorType(ext) == IF ext = ".json" THEN "application" ELSE "text"
\* declared_type.startswith(major)
TypeStartsWith(declared, major) ==
    <<declared, major>> \in { <<"text/python", "text">>, <<"text/plain", "text">>,
                              <<"application/json", "application">> }
is_consistent_file_type(ext, declared) == TypeStartsWith(declared, ExpectedMajorType(ext))

\* UnloadingCampfire.process: the three maps keyed by attachment path
file_paths_of(atts) == [i \in 1..Len(atts) |-> atts[i].path]
LastIndexOf(atts, p) ==
    CHOOSE i \in 1..Len(atts) :
        atts[i].path = p /\ \A j \in (i + 1)..Len(atts) : atts[j].path # p
file_contents_of(atts) ==
    [p \in {atts[i].path : i \in 1..Len(atts)} |-> atts[LastIndexOf(atts, p)].content]
file_types_of(atts) ==
    [p \in {atts[i].path : i \in 1..Len(atts)} |-> atts[LastIndexOf(atts, p)].type]

\* dict iteration order: keys in order of first insertion
DictKeys(atts) ==
    LET ps == file_paths_of(atts) IN
    SelectSeq([i \in 1..Len(ps) |-> [p |-> ps[i], first |-> \A j \in 1..(i - 1) : ps[j] # ps[i]]],
              LAMBDA e : e.first)

Unpack(env, now) ==
    [ torch |-> env,
      file_paths |-> file_paths_of(env.attachments),
      file_contents |-> file_contents_of(env.attachments),
      file_types |-> file_types_of(env.attachments),
      keys |-> [i \in 1..Len(DictKeys(env.attachments)) |-> DictKeys(env.attachments)[i].p],
      task_assertions |-> env.task,
      workspace_root |-> env.workspace_root,
      os_type |-> env.os,
      current_file |-> env.current_file,
      unpacked_at |-> now ]

(***************************************************************************)
(* SecurityCampfire: the eight validations.                                *)
(***************************************************************************)
Cwd == << "app" >>

\* Path(workspace_root).resolve()
ResolveRoot(ws, links) ==
    IF Len(ws) >= 2 /\ ws[1] = "" THEN Resolve(Tail(ws), links) ELSE Resolve(Cwd \o ws, links)

\* (workspace_path / file_path).resolve()
ResolveIn(ws, p, links) == Resolve(JoinPath(ResolveRoot(ws, links), p), links)

BoundaryErrorsOf(ws, p, links) ==
    IF HasNullByte(p)
    THEN << [check |-> "workspace_boundary", kind |-> "exception", path |-> p] >>
    ELSE IF ~StrStartsWith(ResolveIn(ws, p, links), ResolveRoot(ws, links))
         THEN << [check |-> "workspace_boundary", kind |-> "outside", path |-> p] >>
         ELSE <<>>

validate_workspace_boundary(file_paths, ws, links) ==
    IF ws = << "" >>
    THEN << [check |-> "workspace_boundary", kind |-> "no_root", path |-> <<>>] >>
    ELSE ConcatAll([i \in 1..Len(file_paths) |-> BoundaryErrorsOf(ws, file_paths[i], links)])

RECURSIVE SumBytes(_, _)
SumBytes(contents, keys) ==
    IF keys = <<>> THEN 0 ELSE contents[Head(keys)].bytes + SumBytes(contents, Tail(keys))

SizeErrorsOf(p, c) ==
    (IF c.bytes > max_file_size
        THEN << [check |-> "file_size_limits", kind |-> "too_large", path |-> p] >> ELSE <<>>)
    \o (IF c.bytes = 0
        THEN << [check |-> "file_size_limits", kind |-> "empty", path |-> p] >> ELSE <<>>)

validate_file_sizes(contents, keys) ==
    (IF Len(keys) > max_files
        THEN << [check |-> "file_size_limits", kind |-> "too_many", path |-> <<>>] >> ELSE <<>>)
    \o ConcatAll([i \in 1..Len(keys) |-> SizeErrorsOf(keys[i], contents[keys[i]])])
    \o (IF SumBytes(contents, keys) > max_total_size
        THEN << [check |-> "file_size_limits", kind |-> "total", path |-> <<>>] >> ELSE <<>>)

TypeErrorsOf(p, types) ==
    (IF PathSuffix(p) # "" /\ PathSuffix(p) \notin allowed_file_extensions
        THEN << [check |-> "file_type_validation", kind |-> "extension", path |-> p] >> ELSE <<>>)
    \o (IF types[p] # "" /\ ~is_consistent_file_type(PathSuffix(p), types[p])
        THEN << [check |-> "file_type_validation", kind |-> "mime", path |-> p] >> ELSE <<>>)

validate_file_types(file_paths, types) ==
    ConcatAll([i \in 1..Len(file_paths) |-> TypeErrorsOf(file_paths[i], types)])

StructureFlags == << "nul", "longline", "manylines" >>
StructureErrorsOf(p, c) ==
    [e \in 1..Len(SelectSeq(StructureFlags, LAMBDA f : f \in c.flags)) |->
        [check |-> "content_validation",
         kind |-> SelectSeq(StructureFlags, LAMBDA f : f \in c.flags)[e], path |-> p]]

validate_content_structure(contents, keys) ==
    ConcatAll([i \in 1..Len(keys) |-> StructureErrorsOf(keys[i], contents[keys[i]])])

\* SecurityCampfire._check_content_for_patterns: what a matching category yields
PatternVerdict(category) ==
    IF category \in {"code_injection", "system_paths", "dangerous_commands"} THEN "error"
    ELSE IF category \in {"network_access", "file_system"} THEN "warning"
    ELSE IF category = "sensitive_data" THEN "error"
    ELSE "ignored"

check_content_for_patterns(cats, source, verdict) ==
    LET hit == SelectSeq(RuleCategories, LAMBDA c : c \in cats /\ PatternVerdict(c) = verdict)
    IN [i \in 1..Len(hit) |-> [check |-> "dangerous_patterns", kind |-> hit[i], path |-> source]]

validate_dangerous_patterns(contents, keys, task, verdict) ==
    check_content_for_patterns(task.cats, << "task" >>, verdict)
    \o ConcatAll([i \in 1..Len(keys) |->
                    check_content_for_patterns(contents[keys[i]].cats, keys[i], verdict)])

ObfuscationFlags == << "base64", "hex" >>
analyze_content_behavior(contents, keys, task) ==
    (IF task.suspicious
        THEN << [check |-> "content_analysis", kind |-> "task", path |-> << "task" >>] >> ELSE <<>>)
    \o ConcatAll([i \in 1..Len(keys) |->
          LET fl == SelectSeq(ObfuscationFlags, LAMBDA f : f \in contents[keys[i]].flags)
          IN [e \in 1..Len(fl) |-> [check |-> "content_analysis", kind |-> fl[e], path |-> keys[i]]]])

check_rate_limits(unpacked) == <<>>

\* SecurityCampfire.process: validation_errors, in the order the checks run
ValidationErrors(u, links) ==
    validate_path_traversal(u.file_paths)
    \o validate_workspace_boundary(u.file_paths, u.workspace_root, links)
    \o validate_file_sizes(u.file_contents, u.keys)
    \o validate_file_types(u.file_paths, u.file_types)
    \o validate_content_structure(u.file_contents, u.keys)
    \o validate_dangerous_patterns(u.file_contents, u.keys, u.task_assertions, "error")
    \o analyze_content_behavior(u.file_contents, u.keys, u.task_assertions)
    \o check_rate_limits(u)

SecurityWarnings(u) ==
    validate_dangerous_patterns(u.file_contents, u.keys, u.task_assertions, "warning")

\* What SecurityCampfire.process does with its input: it returns the
\* validated record, or raises the SecurityValidationError that the name
\* resolves to inside processing_campfires.py (the class defined at the
\* bottom of that module, which shadows the imported one).
SecurityProcess(u, links) ==
    LET errs == ValidationErrors(u, links) IN
    IF Len(errs) = 0
    THEN [kind |-> "return", secure |-> TRUE, errors |-> errs,
          warnings |-> SecurityWarnings(u), exc |-> NoneVal]
    ELSE [kind |-> "raise", secure |-> FALSE, errors |-> errs,
          warnings |-> SecurityWarnings(u),
          exc |-> "processing_campfires.SecurityValidationError"]

(***************************************************************************)
(* Campers and campfires.  A generated text is abstracted to its class:    *)
(* "clean" and "eval" both hold one code block named app.py, the second    *)
(* with a call of eval( in it; "error" is the {"error": ...} answer of the *)
(* generation client.  Confidence scores are in hundredths.                *)
(***************************************************************************)
GenOutcomes == {"error", "clean", "eval"}

\* pattern.lower() in content.lower()
Contains(content, pattern) == <<content, pattern>> \in { <<"eval", "eval(">> }

\* GenericCamper._determine_response_type
determine_response_type(specializations) ==
    IF specializations \cap {"api_development", "ui_development", "infrastructure_as_code"} # {}
    THEN "code"
    ELSE IF specializations \cap {"command_line_operations", "debugging_commands"} # {}
         THEN "command"
         ELSE "suggestion"

\* GenericCamper._extract_code_blocks on the two text classes
extract_code_blocks(text) == << [path |-> << "app.py" >>, content |-> text] >>

\* BaseCamper.format_response (campfire_loader.py)
format_response(role, config, content, response_type, files, commands, confidence) ==
    [ camper_role |-> role,
      response_type |-> response_type,
      content |-> content,
      files_to_create |-> files,
      commands_to_execute |-> commands,
      confidence_score |-> IF confidence # 0 THEN confidence ELSE config.confidenceThreshold,
      specializations |-> config.specializations ]

\* A camper that passes the failure of the generation service off as an answer
process_task_hiding_failure(role, config, out) ==
    format_response(role, config, out,
                    determine_response_type(config.specializations),
                    IF config.codeGeneration /\ out # "error" THEN extract_code_blocks(out) ELSE <<>>,
                    <<>>,
                    config.confidenceThreshold)

\* GenericCamper.process_task, given what the generation service answered
process_task(role, config, out) ==
    IF out = "error"
    THEN format_response(role, config, "error", "suggestion", <<>>, <<>>, FailedConfidence)
    ELSE format_response(role, config, out,
                         determine_response_type(config.specializations),
                         IF config.codeGeneration THEN extract_code_blocks(out) ELSE <<>>,
                         <<>>,
                         config.confidenceThreshold)

Camper(specs, codeGen, threshold, gatekeeper) ==
    [ specializations |-> specs, codeGeneration |-> codeGen,
      confidenceThreshold |-> threshold, gatekeeper |-> gatekeeper ]

RequirementsGathererCfg == Camper({"requirements_analysis"}, FALSE, DefaultThreshold, FALSE)
BackEndDevCfg == Camper({"api_development"}, TRUE, DefaultThreshold, FALSE)
AuditorCfg == Camper({"security_analysis"}, FALSE, DefaultThreshold, TRUE)

Workflow(seq, gate) == [sequence |-> seq, auditGate |-> gate, parallelExecution |-> FALSE]

\* The manifests the registry can load.
DevTeamManifest ==
    [ name |-> "devteam",
      campers |-> [ro \in {"RequirementsGatherer", "BackEndDev", "Auditor"} |->
                     CASE ro = "RequirementsGatherer" -> RequirementsGathererCfg
                       [] ro = "BackEndDev" -> BackEndDevCfg
                       [] OTHER -> AuditorCfg],
      workflows |-> [c \in {"generate_code", "review_code"} |->
                     IF c = "generate_code"
                     THEN Workflow(<< "RequirementsGatherer", "BackEndDev", "Auditor" >>, TRUE)
                     ELSE Workflow(<< "Auditor" >>, FALSE)],
      security |-> [enableSecurityValidation |-> TRUE, dangerousPatterns |-> {"eval("}] ]

NoAuditorManifest ==
    [ name |-> "lean",
      campers |-> [ro \in {"BackEndDev"} |-> BackEndDevCfg],
      workflows |-> [c \in {"generate_code"} |->
                     Workflow(<< "Tester", "BackEndDev" >>, TRUE)],
      security |-> [enableSecurityValidation |-> FALSE, dangerousPatterns |-> {}] ]

\* A manifest whose sequences name a role, Tester, that has no camper
PartialManifest ==
    [ name |-> "partial",
      campers |-> [ro \in {"BackEndDev", "Auditor"} |->
                     IF ro = "BackEndDev" THEN BackEndDevCfg ELSE AuditorCfg],
      workflows |-> [c \in {"generate_code", "review_code"} |->
                     IF c = "generate_code"
                     THEN Workflow(<< "Tester", "BackEndDev", "Auditor" >>, TRUE)
                     ELSE Workflow(<< "BackEndDev", "Tester", "Auditor" >>, FALSE)],
      security |-> [enableSecurityValidation |-> FALSE, dangerousPatterns |-> {}] ]

\* A manifest whose spec lists no campers and no workflows
EmptyManifest ==
    [ name |-> "empty",
      campers |-> << >>,
      workflows |-> << >>,
      security |-> [enableSecurityValidation |-> FALSE, dangerousPatterns |-> {}] ]

Manifests == {DevTeamManifest, NoAuditorManifest, PartialManifest, EmptyManifest}

\* A gate that checks the confidence scores and forgets the pattern scan
apply_audit_gate_confidence_only(campfire, camper_responses) ==
    LET low == {i \in 1..Len(camper_responses) :
                   camper_responses[i].confidence_score < GateThreshold}
    IN [approved |-> low = {}, issues |-> Cardinality(low)]

\* GenericCampfire._apply_audit_gate
apply_audit_gate(campfire, camper_responses) ==
    IF "Auditor" \notin DOMAIN campfire.campers THEN [approved |-> TRUE, issues |-> 0]
    ELSE IF ~campfire.campers["Auditor"].gatekeeper THEN [approved |-> TRUE, issues |-> 0]
    ELSE LET low == {i \in 1..Len(camper_responses) :
                        camper_responses[i].confidence_score < GateThreshold}
             bad == IF campfire.security.enableSecurityValidation
                    THEN UNION {
                           {<<i, j, pat>> : j \in {k \in 1..Len(camper_responses[i].files_to_create) :
                                  /\ camper_responses[i].response_type = "code"
                                  /\ Contains(camper_responses[i].files_to_create[k].content, pat)}}
                           : <<i, pat>> \in (1..Len(camper_responses))
                                            \X campfire.security.dangerousPatterns }
                    ELSE {}
         IN [approved |-> low = {} /\ bad = {}, issues |-> Cardinality(low) + Cardinality(bad)]

\* A workflow that reports the gate's verdict and forgets to mark the responses
MarkBlockedNothing(camper_responses) == camper_responses

\* A gate that also takes the files out of the responses it blocks
MarkBlockedDroppingFiles(camper_responses) ==
    [i \in 1..Len(camper_responses) |->
        IF camper_responses[i].response_type = "code"
        THEN [publication_blocked |-> TRUE,
              block_reason |-> "Failed audit gate verification"]
             @@ [camper_responses[i] EXCEPT !.files_to_create = <<>>]
        ELSE camper_responses[i]]

\* GenericCampfire._execute_workflow, lines 387-396: mark the code responses
MarkBlocked(camper_responses) ==
    [i \in 1..Len(camper_responses) |->
        IF camper_responses[i].response_type = "code"
        THEN [publication_blocked |-> TRUE,
              block_reason |-> "Failed audit gate verification"] @@ camper_responses[i]
        ELSE camper_responses[i]]

\* GenericCampfire._execute_workflow, lines 387-409, once the sequence is done
FinishWorkflowResult(campfire, workflow, camper_responses) ==
    LET gated == workflow.auditGate /\ "Auditor" \in DOMAIN campfire.campers
        audit == apply_audit_gate(campfire, camper_responses)
        marked == IF gated /\ ~audit.approved THEN MarkBlocked(camper_responses)
                  ELSE camper_responses
    IN IF workflow.auditGate /\ ~gated
       THEN [kind |-> "raise", exc |-> "UnboundLocalError"]
       ELSE [kind |-> "return",
             value |-> [ camper_responses |-> marked,
                         workflow_metadata |->
                           [ campers_involved |-> [i \in 1..Len(marked) |-> marked[i].camper_role],
                             collaboration_steps |-> Len(marked),
                             audit_gate_status |->
                               IF ~workflow.auditGate \/ audit.approved THEN "PASSED" ELSE "BLOCKED" ] ]]

(***************************************************************************)
(* DevTeamCampfire (devteam_campfire.py): eight hard-wired campers.        *)
(***************************************************************************)
DevTeamCodeRoles == {"BackEndDev", "FrontEndDev", "Tester", "DevOps"}

\* BaseCamper.format_response (devteam_campfire.py); every camper is built
\* with the default confidence_threshold
dt_format_response(role, content, response_type, files, commands, confidence) ==
    [ camper_role |-> role,
      response_type |-> response_type,
      content |-> content,
      files_to_create |-> files,
      commands_to_execute |-> commands,
      confidence_score |-> IF confidence # 0 THEN confidence ELSE DefaultThreshold ]

\* TerminalExpertCamper._extract_commands_from_response on the text classes
extract_commands_from_response(text) == << "ls" >>

\* <Role>Camper.process_task, given what the generation service answered
dt_process_task(role, out) ==
    IF out = "error"
    THEN dt_format_response(role, "error", "suggestion", <<>>, <<>>, FailedConfidence)
    ELSE IF role \in DevTeamCodeRoles
         THEN dt_format_response(role, out, "code", extract_code_blocks(out), <<>>,
                                 CamperConfidence)
    ELSE IF role = "TerminalExpert"
         THEN dt_format_response(role, out, "command", <<>>,
                                 extract_commands_from_response(out), CamperConfidence)
    ELSE IF role = "Auditor"
         THEN dt_format_response(role, out, "suggestion", <<>>, <<>>, AuditorConfidence)
    ELSE dt_format_response(role, out, "suggestion", <<>>, <<>>, CamperConfidence)

\* AuditorCamper._check_security_vulnerabilities: the patterns found
check_security_vulnerabilities(content) ==
    {pat \in {"eval("} : Contains(content, pat)}

\* AuditorCamper.verify_code_quality: the issues, by kind and position
verify_code_quality(camper_responses) ==
    LET idx == 1..Len(camper_responses)
        low == {<<"confidence", i>> : i \in {k \in idx :
                   camper_responses[k].confidence_score < GateThreshold}}
        empty == UNION {{<<"empty", i, j>> : j \in {k \in 1..Len(camper_responses[i].files_to_create) :
                          /\ camper_responses[i].response_type = "code"
                          /\ camper_responses[i].files_to_create[k].content = ""}} : i \in idx}
        sec == UNION {{<<"security", i, j>> : j \in {k \in 1..Len(camper_responses[i].files_to_create) :
                          /\ camper_responses[i].response_type = "code"
                          /\ check_security_vulnerabilities(
                                 camper_responses[i].files_to_create[k].content) # {}}} : i \in idx}
        missing == {<<"coverage", e>> : e \in {x \in {"RequirementsGatherer", "OSExpert"} :
                      \A i \in idx : camper_responses[i].camper_role # x}}
        issues == low \cup empty \cup sec \cup missing
    IN [approved |-> issues = {}, issues |-> issues]

\* DevTeamCampfire._process_with_specialized_campers: the campers of a claim
DevTeamSequence(claim) ==
    << "RequirementsGatherer", "OSExpert" >> \o
    ( IF claim = "generate_code"
      THEN << "BackEndDev", "FrontEndDev", "Tester", "DevOps", "TerminalExpert" >>
      ELSE IF claim = "review_code" THEN << "Auditor" >>
      ELSE IF claim = "execute_command" THEN << "TerminalExpert" >>
      ELSE <<>> )

\* A run that sends every claim through the gate, code review included
dt_calls_gating_every_claim(claim) ==
    [i \in 1..Len(DevTeamSequence(claim)) |->
        [role |-> DevTeamSequence(claim)[i], method |-> "process_task"]]
    \o << [role |-> "Auditor", method |-> "verify_code_quality"] >>

\* DevTeamCampfire._process_with_specialized_campers: the calls it makes on
\* its campers, in order: process_task on each camper of the claim (lines
\* 570-626), then, unless the claim is review_code, the Auditor's
\* verify_code_quality on what they answered (lines 630-635)
dt_calls(claim) ==
    [i \in 1..Len(DevTeamSequence(claim)) |->
        [role |-> DevTeamSequence(claim)[i], method |-> "process_task"]]
    \o ( IF claim # "review_code"
         THEN << [role |-> "Auditor", method |-> "verify_code_quality"] >>
         ELSE <<>> )

\* lines 654-662
dt_MarkBlocked(camper_responses) ==
    [i \in 1..Len(camper_responses) |->
        IF camper_responses[i].response_type = "code"
        THEN [publication_blocked |-> TRUE,
              block_reason |-> "Failed auditor gate verification"] @@ camper_responses[i]
        ELSE camper_responses[i]]

\* lines 575-626: the responses collected from the campers of the claim;
\* outs[i] is the answer of the generation service to the i-th camper
dt_collect(claim, outs) ==
    [i \in 1..Len(DevTeamSequence(claim)) |-> dt_process_task(DevTeamSequence(claim)[i], outs[i])]

\* DevTeamCampfire._process_with_specialized_campers
process_with_specialized_campers(claim, outs) ==
    LET collected == dt_collect(claim, outs)
        audit_result == verify_code_quality(collected)
        audit_summary_response ==
            [audit_gate |-> [ approved |-> audit_result.approved,
                              gate_status |-> IF audit_result.approved THEN "PASSED" ELSE "BLOCKED",
                              issues_count |-> Cardinality(audit_result.issues),
                              publication_allowed |-> audit_result.approved ]]
            @@ dt_format_response("Auditor", "audit summary", "suggestion", <<>>, <<>>,
                                  IF audit_result.approved THEN AuditorConfidence
                                  ELSE BlockedAuditConfidence)
        camper_responses ==
            IF claim = "review_code" THEN collected
            ELSE IF audit_result.approved THEN Append(collected, audit_summary_response)
            ELSE dt_MarkBlocked(Append(collected, audit_summary_response))
    IN [ camper_responses |-> camper_responses,
         collaboration_metadata |->
           [ workflow_type |-> claim,
             campers_involved |-> [i \in 1..Len(camper_responses) |->
                                     camper_responses[i].camper_role],
             collaboration_steps |-> Len(camper_responses),
             audit_gate_status |-> IF claim = "review_code" \/ audit_result.approved
                                   THEN "PASSED" ELSE "BLOCKED" ] ]

\* DevTeamCampfire._process_with_fallback
process_with_fallback(claim) ==
    [ camper_responses |->
        << IF claim = "generate_code"
           THEN [ camper_role |-> "BackEndDev", response_type |-> "code", content |-> "clean",
                  files_to_create |-> << [path |-> << "generated_code.py" >>, content |-> "clean"] >>,
                  commands_to_execute |-> <<>>, confidence_score |-> FallbackConfidence ]
           ELSE IF claim = "review_code"
           THEN [ camper_role |-> "Auditor", response_type |-> "suggestion", content |-> "clean",
                  files_to_create |-> <<>>, commands_to_execute |-> <<>>,
                  confidence_score |-> FallbackConfidence ]
           ELSE [ camper_role |-> "RequirementsGatherer", response_type |-> "suggestion",
                  content |-> "clean", files_to_create |-> <<>>, commands_to_execute |-> <<>>,
                  confidence_score |-> FallbackAnalysisConfidence ] >> ]

\* DevTeamCampfire.process
DevTeamProcessResult(claim, ollama_available, outs, now) ==
    [ processed_at |-> now, processed_by |-> "DevTeamCampfire",
      ollama_available |-> ollama_available ]
    @@ ( IF ollama_available THEN process_with_specialized_campers(claim, outs)
         ELSE process_with_fallback(claim) )

(***************************************************************************)
(* OffloadingCampfire.process                                              *)
(***************************************************************************)
DictGet(d, k, default) == IF k \in DOMAIN d THEN d[k] ELSE default

\* A packaging that gathers the files from the last Response to the first and
\* counts every Response as a suggestion
OffloadingProcessBackwards(processed_data, now) ==
    LET camper_responses == DictGet(processed_data, "camper_responses", <<>>)
        n == Len(camper_responses)
        files == ConcatAll([i \in 1..n |-> camper_responses[n + 1 - i].files_to_create])
        commands == ConcatAll([i \in 1..n |-> camper_responses[i].commands_to_execute])
    IN [ torch |-> [ claim |-> "response",
                     task |-> "processed_response",
                     os |-> DictGet(processed_data, "os_type", "linux"),
                     workspace_root |-> DictGet(processed_data, "workspace_root", << "" >>),
                     context |-> [ current_file |->
                                     DictGet(processed_data, "current_file", NoneVal) ] ],
         results |-> [ camper_responses |-> camper_responses,
                       files_to_create |-> files,
                       commands_to_execute |-> commands,
                       suggestions |-> [i \in 1..n |->
                                          [ camper |-> camper_responses[i].camper_role,
                                            content |-> camper_responses[i].content,
                                            confidence |-> camper_responses[i].confidence_score ]],
                       processing_summary |->
                         [ total_campers |-> n,
                           files_generated |-> Len(files),
                           commands_generated |-> Len(commands),
                           suggestions_generated |-> n ] ],
         processed_at |-> now ]

OffloadingProcess(processed_data, now) ==
    LET camper_responses == DictGet(processed_data, "camper_responses", <<>>)
        files == ConcatAll([i \in 1..Len(camper_responses) |-> camper_responses[i].files_to_create])
        commands == ConcatAll([i \in 1..Len(camper_responses) |->
                                 camper_responses[i].commands_to_execute])
        suggestions == SelectSeq(camper_responses, LAMBDA x : x.response_type = "suggestion")
    IN [ torch |-> [ claim |-> "response",
                     task |-> "processed_response",
                     os |-> DictGet(processed_data, "os_type", "linux"),
                     workspace_root |-> DictGet(processed_data, "workspace_root", << "" >>),
                     context |-> [ current_file |->
                                     DictGet(processed_data, "current_file", NoneVal) ] ],
         results |-> [ camper_responses |-> camper_responses,
                       files_to_create |-> files,
                       commands_to_execute |-> commands,
                       suggestions |-> [i \in 1..Len(suggestions) |->
                                          [ camper |-> suggestions[i].camper_role,
                                            content |-> suggestions[i].content,
                                            confidence |-> suggestions[i].confidence_score ]],
                       processing_summary |->
                         [ total_campers |-> Len(camper_responses),
                           files_generated |-> Len(files),
                           commands_generated |-> Len(commands),
                           suggestions_generated |-> Len(suggestions) ] ],
         processed_at |-> now ]

(***************************************************************************)
(* PartyBoxStorageManager: what one persist call writes next to the        *)
(* payload.  The checksum and the size are those of the file written, so   *)
(* they stand for the payload; the timestamp is the clock at the call.     *)
(***************************************************************************)
Checksum(data) == << "md5", data >>
FileSize(data) == << "st_size", data >>

StorageMetadata(party_box_id, direction, data, now) ==
    [ party_box_id |-> party_box_id, direction |-> direction, timestamp |-> now,
      file_size |-> FileSize(data), checksum |-> Checksum(data) ]

(***************************************************************************)
(* ErrorHandler.  An error is [error_type, code, severity, timestamp] and  *)
(* the serial number that tells two error objects apart.                   *)
(***************************************************************************)
max_history_size == 1000

NoErrors == [error_history |-> <<>>, error_counts |-> << >>]

RECURSIVE SumCounts(_, _)
SumCounts(counts, codes) ==
    IF codes = {} THEN 0
    ELSE LET c == CHOOSE x \in codes : TRUE IN counts[c] + SumCounts(counts, codes \ {c})

\* How many errors the handler has tracked since it was made or cleared
Tracked(handler) == SumCounts(handler.error_counts, DOMAIN handler.error_counts)

\* A tracker that keeps the oldest entries when the history is full
track_error_keeping_oldest(handler, error) ==
    LET appended == Append(handler.error_history, error) IN
    [ error_history |-> IF Len(appended) > max_history_size
                        THEN SubSeq(appended, 1, max_history_size)
                        ELSE appended,
      error_counts |-> (error.code :> (DictGet(handler.error_counts, error.code, 0) + 1))
                       @@ handler.error_counts ]

\* ErrorHandler._track_error
track_error(handler, error) ==
    LET appended == Append(handler.error_history, error) IN
    [ error_history |-> IF Len(appended) > max_history_size
                        THEN SubSeq(appended, Len(appended) - max_history_size + 1, Len(appended))
                        ELSE appended,
      error_counts |-> (error.code :> (DictGet(handler.error_counts, error.code, 0) + 1))
                       @@ handler.error_counts ]

\* ErrorHandler.create_error
create_error(handler, error_type, code, severity, now) ==
    track_error(handler, [ error_type |-> error_type, code |-> code, severity |-> severity,
                           timestamp |-> now, serial |-> Tracked(handler) + 1 ])

\* f"SECURITY_{validation_type.upper()}_FAILED"
SecurityCode(validation_type) ==
    CASE validation_type = "comprehensive_validation" -> "SECURITY_COMPREHENSIVE_VALIDATION_FAILED"
      [] validation_type = "path_traversal" -> "SECURITY_PATH_TRAVERSAL_FAILED"
      [] OTHER -> "SECURITY_UNKNOWN_FAILED"

\* ErrorHandler.handle_security_validation_error
handle_security_validation_error(handler, validation_type, now) ==
    create_error(handler, "security_validation", SecurityCode(validation_type), "critical", now)

\* No management call has been made
NoCall == [op |-> NoneVal, arg |-> NoneVal, result |-> NoneVal]

(***************************************************************************)
(* The riverboat: state.                                                   *)
(*   clock            seconds on the server's clock                        *)
(*   redisUp          whether calls to the cache / pub-sub service succeed *)
(*   fs_links         the symbolic links of the server's file system       *)
(*   campfires        CampfireRegistry.campfires, in load order            *)
(*   active_campfire  RiverboatSystem.active_campfire (<<>> is None)       *)
(*   incoming, outgoing   the storage manager's directories, id -> payload *)
(*   metadata         the storage manager's metadata directory, id -> the  *)
(*                    StorageMetadata last written under that id           *)
(*   cache            key -> [value, expires]                              *)
(*   req              the receive_party_box calls, by request number; of   *)
(*                    each its position (pc), its locals, the stage events *)
(*                    (trace), the notifications published (pubs), and the *)
(*                    calls that will fail for it: publishes (pub_faults), *)
(*                    stages and store writes (faults); wrote numbers the  *)
(*                    writes to the cache in the order they were made;     *)
(*                    swallowed names the helpers whose except clause      *)
(*                    logged an exception and went on                      *)
(*   devteam          a DevTeamCampfire built on its own (the server never *)
(*                    builds one: there its pc is "absent"), its result    *)
(*                    the responses it had collected before its gate, and  *)
(*                    the calls it made on its campers                     *)
(*   error_handler    the module's ErrorHandler: its history and counts    *)
(*   call             the last management call made on the riverboat or    *)
(*                    the store: [op, arg, result]                         *)
(* An optional value is <<>> (None) or <<v>>.                              *)
(***************************************************************************)
VARIABLES clock, redisUp, fs_links, campfires, active_campfire,
          incoming, outgoing, metadata, cache, req, devteam, error_handler, call

vars == << clock, redisUp, fs_links, campfires, active_campfire,
           incoming, outgoing, metadata, cache, req, devteam, error_handler, call >>

Requests == 1..MaxRequests

CleanContent == [bytes |-> 16, cats |-> {}, flags |-> {}]
AddTask == [text |-> "add two numbers", cats |-> {}, suspicious |-> FALSE]
ReviewTask == [text |-> "review this code", cats |-> {}, suspicious |-> FALSE]
Attachment(path) == [path |-> path, content |-> CleanContent, type |-> "text/plain"]

Envelope(claim, task, os, atts, cur) ==
    [ claim |-> claim, task |-> task, os |-> os, workspace_root |-> << "", "ws" >>,
      attachments |-> atts, current_file |-> cur ]

\* The envelopes clients submit to the riverboat.
Envelopes ==
    { Envelope("generate_code", AddTask, "windows", <<>>, "test.py"),
      Envelope("generate_code", AddTask, "windows",
               << Attachment(<< "..", "..", "etc", "passwd" >>) >>, "test.py"),
      Envelope("review_code", ReviewTask, "linux", << Attachment(<< "app.py" >>) >>, NoneVal) }

IdleRequest ==
    [ pc |-> "idle", env |-> <<>>, id |-> <<>>, cache_key |-> <<>>, trace |-> <<>>,
      unpacked |-> <<>>, validated |-> <<>>, run |-> <<>>, result |-> <<>>,
      response |-> <<>>, exc |-> NoneVal, outcome |-> <<>>, gen_calls |-> 0, pubs |-> <<>>,
      pub_faults |-> {}, faults |-> {}, wrote |-> 0, swallowed |-> {} ]

\* CampfireRegistry.get_default_campfire
get_default_campfire(cfs) == IF cfs = <<>> THEN <<>> ELSE << cfs[1] >>

Init ==
    /\ clock = 0
    /\ fs_links = {}
    /\ \/ /\ devteam = [pc |-> "absent", claim |-> NoneVal, result |-> <<>>, collected |-> <<>>,
                  calls |-> <<>>]
          /\ redisUp \in BOOLEAN
          /\ campfires \in { <<>>, << DevTeamManifest >>, << NoAuditorManifest >> }
       \/ /\ devteam = [pc |-> "idle", claim |-> NoneVal, result |-> <<>>, collected |-> <<>>,
                  calls |-> <<>>]
          /\ redisUp = FALSE
          /\ campfires = <<>>
    /\ active_campfire = get_default_campfire(campfires)
    /\ incoming = << >>
    /\ outgoing = << >>
    /\ metadata = << >>
    /\ cache = << >>
    /\ req = [r \in Requests |-> IdleRequest]
    /\ error_handler = NoErrors
    /\ call = NoCall

\* PartyBoxStorageManager._generate_party_box_id: timestamp plus content hash
generate_party_box_id(party_box_data, now) == << now, party_box_data >>

\* f"party_box:{claim}:{hash(task)}"
CacheKey(env) == << env.claim, env.task.text >>

\* json.loads(json.dumps(response, default=str)): every value of a Package is
\* a string, a number, a boolean, None, a list or a string-keyed dict.
JsonRoundTrip(response) ==
    [ torch |-> response.torch, results |-> response.results,
      processed_at |-> response.processed_at ]

\* A lookup whose key never matches what was written
get_cached_response_never_hits(key) == <<>>

\* RiverboatSystem._get_cached_response
get_cached_response(key) ==
    IF redisUp /\ key \in DOMAIN cache /\ clock < cache[key].expires
    THEN << JsonRoundTrip(cache[key].value) >>
    ELSE <<>>

\* RiverboatSystem._publish_message: the channels this request got published.
\* The publish is not made without a connection, and a publish that raises
\* (pub_faults: the channels on which it does, for this request) is logged.
Published(r, channel) ==
    IF redisUp /\ channel \notin req[r].pub_faults
    THEN Append(req[r].pubs, channel)
    ELSE req[r].pubs

Step(r, fields) == req' = [req EXCEPT ![r] = fields @@ req[r]]

\* RiverboatSystem._process_party_box_context, its return value.  The server
\* hands receive_party_box a pydantic PartyBox: line 247 takes party_box.torch,
\* a Torch model, and line 251 calls torch_data.get on it, which no pydantic
\* model has.  The AttributeError is logged by the except clause of line 291,
\* nothing is stored, and False is returned to a caller that drops it.
process_party_box_context(party_box) == FALSE

(***************************************************************************)
(* receive_party_box, one action per step.                                 *)
(***************************************************************************)
\* lines 89-100: store the incoming envelope (store_party_box writes the
\* payload, then the metadata of its id), build the cache key.
StoreIncoming(r) ==
    /\ req[r].pc = "idle"
    /\ devteam.pc = "absent"
    /\ \E env \in Envelopes :
         LET id == generate_party_box_id(env, clock) IN
         IF "store_incoming" \in req[r].faults
         THEN /\ incoming' = incoming
              /\ metadata' = metadata
              /\ Step(r, [pc |-> "except", env |-> << env >>, exc |-> "OSError"])
         ELSE /\ incoming' = (id :> env) @@ incoming
              /\ metadata' = (id :> StorageMetadata(id, "incoming", env, clock)) @@ metadata
              /\ Step(r, [pc |-> "cache_get", env |-> << env >>, id |-> << id >>,
                          cache_key |-> << CacheKey(env) >>,
                          swallowed |-> IF process_party_box_context(env) THEN {}
                                        ELSE {"_process_party_box_context"}])
    /\ UNCHANGED << error_handler, call, devteam, clock, redisUp, fs_links, campfires,
                    active_campfire, outgoing, cache >>

\* The workload: clients submit their requests one after another, request
\* r + 1 once request r has been answered.
Receive(r) ==
    /\ IF r = 1 THEN TRUE ELSE req[r - 1].pc = "done"
    /\ StoreIncoming(r)

\* A lookup that lets the failure of the cache read end the request
CacheLookupPropagating(r) ==
    /\ req[r].pc = "cache_get"
    /\ LET cached == get_cached_response(req[r].cache_key[1]) IN
       IF redisUp /\ "cache_get" \in req[r].faults
       THEN Step(r, [pc |-> "except", exc |-> "RuntimeError"])
       ELSE IF cached # <<>>
       THEN Step(r, [pc |-> "done",
                     outcome |-> << [kind |-> "package", from |-> "cache", value |-> cached[1]] >>])
       ELSE Step(r, [pc |-> "pub_received"])
    /\ UNCHANGED << error_handler, call, metadata, devteam, clock, redisUp, fs_links, campfires, active_campfire,
                    incoming, outgoing, cache >>
\* lines 101-104; a read that raises is logged by _get_cached_response (line
\* 200), which then returns None as for a miss
CacheLookup(r) ==
    /\ req[r].pc = "cache_get"
    /\ LET cached == get_cached_response(req[r].cache_key[1]) IN
       IF redisUp /\ "cache_get" \in req[r].faults
       THEN Step(r, [pc |-> "pub_received",
                     swallowed |-> req[r].swallowed \cup {"_get_cached_response"}])
       ELSE IF cached # <<>>
       THEN Step(r, [pc |-> "done",
                     outcome |-> << [kind |-> "package", from |-> "cache", value |-> cached[1]] >>])
       ELSE Step(r, [pc |-> "pub_received"])
    /\ UNCHANGED << error_handler, call, metadata, devteam, clock, redisUp, fs_links, campfires, active_campfire,
                    incoming, outgoing, cache >>

\* A publish whose failure is not caught and ends the request
PublishReceivedPropagating(r) ==
    /\ req[r].pc = "pub_received"
    /\ IF redisUp /\ "party_box_received" \in req[r].pub_faults
       THEN Step(r, [pc |-> "except", exc |-> "RuntimeError"])
       ELSE Step(r, [pc |-> "unload", pubs |-> Published(r, "party_box_received")])
    /\ UNCHANGED << error_handler, call, metadata, devteam, clock, redisUp, fs_links, campfires, active_campfire,
                    incoming, outgoing, cache >>
\* lines 106-112
PublishReceived(r) ==
    /\ req[r].pc = "pub_received"
    /\ Step(r, [pc |-> "unload", pubs |-> Published(r, "party_box_received")])
    /\ UNCHANGED << error_handler, call, metadata, devteam, clock, redisUp, fs_links, campfires, active_campfire,
                    incoming, outgoing, cache >>

\* An orchestrator that routes the unpacked record without validating it
UnloadSkippingValidation(r) ==
    /\ req[r].pc = "unload"
    /\ Step(r, [pc |-> "route",
                unpacked |-> << Unpack(req[r].env[1], clock) >>,
                trace |-> req[r].trace \o << << "Unpack", "call" >>, << "Unpack", "return" >> >>])
    /\ UNCHANGED << error_handler, call, metadata, devteam, clock, redisUp, fs_links, campfires, active_campfire,
                    incoming, outgoing, cache >>

\* line 118; UnloadingCampfire.process raises UnloadingError for whatever
\* goes wrong inside it
Unload(r) ==
    /\ req[r].pc = "unload"
    /\ IF "Unpack" \in req[r].faults
       THEN Step(r, [pc |-> "except", exc |-> "UnloadingError",
                     trace |-> req[r].trace \o << << "Unpack", "call" >>, << "Unpack", "raise" >> >>])
       ELSE Step(r, [pc |-> "security",
                     unpacked |-> << Unpack(req[r].env[1], clock) >>,
                     trace |-> req[r].trace \o << << "Unpack", "call" >>, << "Unpack", "return" >> >>])
    /\ UNCHANGED << error_handler, call, metadata, devteam, clock, redisUp, fs_links, campfires, active_campfire,
                    incoming, outgoing, cache >>

\* An orchestrator that logs the verdict and goes on whatever it says
SecurityIgnoringVerdict(r) ==
    /\ req[r].pc = "security"
    /\ LET v == [SecurityProcess(req[r].unpacked[1], fs_links) EXCEPT !.kind = "return"] IN
       Step(r, [pc |-> "route", validated |-> << v >>,
                trace |-> req[r].trace \o << << "Validate", "call" >>, << "Validate", "return" >> >>])
    /\ UNCHANGED << error_handler, call, metadata, devteam, clock, redisUp, fs_links, campfires, active_campfire,
                    incoming, outgoing, cache >>

\* lines 122-136; SecurityCampfire.process records the rejection with the
\* error handler before it raises (processing_campfires.py lines 292-308)
Security(r) ==
    /\ req[r].pc = "security"
    /\ LET v == SecurityProcess(req[r].unpacked[1], fs_links) IN
       IF v.kind = "raise"
       THEN /\ error_handler' = handle_security_validation_error(
                                    error_handler, "comprehensive_validation", clock)
            /\ Step(r, [pc |-> "except", exc |-> v.exc, validated |-> << v >>,
                        trace |-> req[r].trace \o << << "Validate", "call" >>, << "Validate", "raise" >> >>])
       ELSE /\ error_handler' = error_handler
            /\ IF ~v.secure
               THEN Step(r, [pc |-> "except", validated |-> << v >>,
                             exc |-> "riverboat_system.SecurityValidationError",
                             pubs |-> Published(r, "party_box_security_failed"),
                             trace |-> req[r].trace \o << << "Validate", "call" >>, << "Validate", "return" >> >>])
               ELSE Step(r, [pc |-> "route", validated |-> << v >>,
                             trace |-> req[r].trace \o << << "Validate", "call" >>, << "Validate", "return" >> >>])
    /\ UNCHANGED << call, metadata, devteam, clock, redisUp, fs_links, campfires, active_campfire,
                    incoming, outgoing, cache >>

\* GenericCampfire.process up to the first camper: pick the workflow of the
\* claim, or the single camper of the basic fallback.  previous_responses is
\* the list of the context dict; handed records, call by call, what that
\* list held when the camper was called, and outs what the generation
\* service answered.
StartRun(campfire, claim) ==
    IF claim \in DOMAIN campfire.workflows
    THEN [kind |-> "run",
          run |-> [ campfire |-> campfire, workflow |-> << campfire.workflows[claim] >>,
                    sequence |-> campfire.workflows[claim].sequence, i |-> 1,
                    camper_responses |-> <<>>, previous_responses |-> <<>>,
                    handed |-> <<>>, outs |-> <<>> ]]
    ELSE IF DOMAIN campfire.campers = {}
         THEN [kind |-> "raise", exc |-> "IndexError"]
         ELSE [kind |-> "run",
               run |-> [ campfire |-> campfire, workflow |-> <<>>,
                         sequence |-> << IF "RequirementsGatherer" \in DOMAIN campfire.campers
                                         THEN "RequirementsGatherer"
                                         ELSE CHOOSE ro \in DOMAIN campfire.campers : TRUE >>,
                         i |-> 1, camper_responses |-> <<>>,
                         previous_responses |-> <<>>, handed |-> <<>>, outs |-> <<>> ]]

\* lines 139-144, and GenericCampfire.process lines 340-352
Route(r) ==
    /\ req[r].pc = "route"
    /\ IF active_campfire = <<>>
       THEN Step(r, [pc |-> "except", exc |-> "riverboat_system.RiverboatProcessingError"])
       ELSE LET s == StartRun(active_campfire[1], req[r].env[1].claim) IN
            IF s.kind = "raise"
            THEN Step(r, [pc |-> "except", exc |-> s.exc,
                          trace |-> req[r].trace \o << << "Collaborate", "call" >>, << "Collaborate", "raise" >> >>])
            ELSE Step(r, [pc |-> "campers", run |-> << s.run >>,
                          trace |-> Append(req[r].trace, << "Collaborate", "call" >>)])
    /\ UNCHANGED << error_handler, call, metadata, devteam, clock, redisUp, fs_links, campfires, active_campfire,
                    incoming, outgoing, cache >>

\* A loop that collects the responses and never adds them to the context
CamperStepContextNotFed(r) ==
    /\ req[r].pc = "campers"
    /\ LET run == req[r].run[1]
           role == run.sequence[run.i]
       IN /\ run.i <= Len(run.sequence)
          /\ IF role \in DOMAIN run.campfire.campers
             THEN \E out \in GenOutcomes :
                    LET response == process_task(role, run.campfire.campers[role], out) IN
                    Step(r, [gen_calls |-> req[r].gen_calls + 1,
                             run |-> << [run EXCEPT
                                 !.i = @ + 1,
                                 !.handed = Append(@, run.previous_responses),
                                 !.outs = Append(@, out),
                                 !.camper_responses = Append(@, response)] >>])
             ELSE Step(r, [run |-> << [run EXCEPT !.i = @ + 1] >>])
    /\ UNCHANGED << error_handler, call, metadata, devteam, clock, redisUp, fs_links, campfires, active_campfire,
                    incoming, outgoing, cache >>

\* A loop that calls the camper a second time when its first answer is an
\* error Response
CamperStepRetrying(r) ==
    /\ req[r].pc = "campers"
    /\ LET run == req[r].run[1]
           role == run.sequence[run.i]
       IN /\ run.i <= Len(run.sequence)
          /\ IF role \in DOMAIN run.campfire.campers
             THEN \E out \in GenOutcomes :
                    LET response == process_task(role, run.campfire.campers[role], out) IN
                    Step(r, [gen_calls |-> req[r].gen_calls + (IF out = "error" THEN 2 ELSE 1),
                             run |-> << [run EXCEPT
                                 !.i = @ + 1,
                                 !.handed = Append(@, run.previous_responses),
                                 !.outs = Append(@, out),
                                 !.camper_responses = Append(@, response),
                                 !.previous_responses = Append(@, response)] >>])
             ELSE Step(r, [run |-> << [run EXCEPT !.i = @ + 1] >>])
    /\ UNCHANGED << error_handler, call, metadata, devteam, clock, redisUp, fs_links, campfires, active_campfire,
                    incoming, outgoing, cache >>

\* GenericCampfire._execute_workflow lines 378-385 (one turn of the loop), and
\* _process_basic_workflow line 419 (whose camper is called without a context)
CamperStep(r) ==
    /\ req[r].pc = "campers"
    /\ LET run == req[r].run[1]
           role == run.sequence[run.i]
       IN /\ run.i <= Len(run.sequence)
          /\ IF role \in DOMAIN run.campfire.campers
             THEN \E out \in GenOutcomes :
                    LET response == process_task(role, run.campfire.campers[role], out) IN
                    Step(r, [gen_calls |-> req[r].gen_calls + 1,
                             run |-> << [run EXCEPT
                                 !.i = @ + 1,
                                 !.handed = Append(@, run.previous_responses),
                                 !.outs = Append(@, out),
                                 !.camper_responses = Append(@, response),
                                 !.previous_responses = Append(@, response)] >>])
             ELSE Step(r, [run |-> << [run EXCEPT !.i = @ + 1] >>])
    /\ UNCHANGED << error_handler, call, metadata, devteam, clock, redisUp, fs_links, campfires, active_campfire,
                    incoming, outgoing, cache >>

\* _process_basic_workflow lines 420-427
BasicResult(run) ==
    [ camper_responses |-> run.camper_responses,
      workflow_metadata |-> [ campers_involved |-> run.sequence, collaboration_steps |-> 1 ] ]

\* GenericCampfire._execute_workflow lines 387-409; riverboat line 144 returns
FinishRun(r) ==
    /\ req[r].pc = "campers"
    /\ LET run == req[r].run[1]
           fin == IF run.workflow = <<>>
                  THEN [kind |-> "return", value |-> BasicResult(run)]
                  ELSE FinishWorkflowResult(run.campfire, run.workflow[1], run.camper_responses)
       IN /\ run.i > Len(run.sequence)
          /\ IF fin.kind = "raise"
             THEN Step(r, [pc |-> "except", exc |-> fin.exc,
                           trace |-> Append(req[r].trace, << "Collaborate", "raise" >>)])
             ELSE Step(r, [pc |-> "offload", result |-> << fin.value >>,
                           trace |-> Append(req[r].trace, << "Collaborate", "return" >>)])
    /\ UNCHANGED << error_handler, call, metadata, devteam, clock, redisUp, fs_links, campfires, active_campfire,
                    incoming, outgoing, cache >>

\* A Package step that announces the completion as soon as the Package is made
OffloadAnnouncingCompletion(r) ==
    /\ req[r].pc = "offload"
    /\ Step(r, [pc |-> "cache_set",
                response |-> << OffloadingProcess(req[r].result[1], clock) >>,
                pubs |-> Published(r, "party_box_completed"),
                trace |-> req[r].trace \o << << "Package", "call" >>, << "Package", "return" >> >>])
    /\ UNCHANGED << error_handler, call, metadata, devteam, clock, redisUp, fs_links, campfires, active_campfire,
                    incoming, outgoing, cache >>
\* line 148; OffloadingCampfire.process raises OffloadingError for whatever
\* goes wrong inside it
Offload(r) ==
    /\ req[r].pc = "offload"
    /\ IF "Package" \in req[r].faults
       THEN Step(r, [pc |-> "except", exc |-> "OffloadingError",
                     trace |-> req[r].trace \o << << "Package", "call" >>, << "Package", "raise" >> >>])
       ELSE Step(r, [pc |-> "cache_set",
                     response |-> << OffloadingProcess(req[r].result[1], clock) >>,
                     trace |-> req[r].trace \o << << "Package", "call" >>, << "Package", "return" >> >>])
    /\ UNCHANGED << error_handler, call, metadata, devteam, clock, redisUp, fs_links, campfires, active_campfire,
                    incoming, outgoing, cache >>

\* How many writes the cache has taken
LastWrite == LET n == {req[x].wrote : x \in Requests} IN CHOOSE m \in n : \A k \in n : k <= m

\* A cache write that keeps the entry a key already has
CacheWriteIfAbsent(r) ==
    /\ req[r].pc = "cache_set"
    /\ cache' = IF redisUp /\ req[r].cache_key[1] \notin DOMAIN cache
                THEN (req[r].cache_key[1] :>
                        [value |-> req[r].response[1], expires |-> clock + CacheTTL]) @@ cache
                ELSE cache
    /\ Step(r, [pc |-> "store_out", wrote |-> IF redisUp THEN LastWrite + 1 ELSE 0])
    /\ UNCHANGED << error_handler, call, metadata, devteam, clock, redisUp, fs_links, campfires,
                    active_campfire, incoming, outgoing >>

\* line 152, _cache_response: a write that raises is logged (line 210)
CacheWrite(r) ==
    /\ req[r].pc = "cache_set"
    /\ IF redisUp /\ "cache_set" \in req[r].faults
       THEN /\ cache' = cache
            /\ Step(r, [pc |-> "store_out",
                        swallowed |-> req[r].swallowed \cup {"_cache_response"}])
       ELSE /\ cache' = IF redisUp
                        THEN (req[r].cache_key[1] :>
                                [value |-> req[r].response[1],
                                 expires |-> clock + CacheTTL]) @@ cache
                        ELSE cache
            /\ Step(r, [pc |-> "store_out", wrote |-> IF redisUp THEN LastWrite + 1 ELSE 0])
    /\ UNCHANGED << error_handler, call, metadata, devteam, clock, redisUp, fs_links, campfires, active_campfire, incoming, outgoing >>

\* A store call that leaves the id out, so that the store makes a new one
StoreOutgoingUnderNewId(r) ==
    /\ req[r].pc = "store_out"
    /\ LET id == generate_party_box_id(req[r].response[1], clock) IN
         /\ outgoing' = (id :> req[r].response[1]) @@ outgoing
         /\ metadata' = (id :> StorageMetadata(id, "outgoing", req[r].response[1], clock))
                         @@ metadata
    /\ Step(r, [pc |-> "pub_completed"])
    /\ UNCHANGED << error_handler, call, devteam, clock, redisUp, fs_links, campfires,
                    active_campfire, incoming, cache >>
\* line 155; store_party_box re-raises what the file system raises
StoreOutgoing(r) ==
    /\ req[r].pc = "store_out"
    /\ IF "store_outgoing" \in req[r].faults
       THEN /\ outgoing' = outgoing
            /\ metadata' = metadata
            /\ Step(r, [pc |-> "except", exc |-> "OSError"])
       ELSE /\ outgoing' = (req[r].id[1] :> req[r].response[1]) @@ outgoing
            /\ metadata' = (req[r].id[1] :>
                               StorageMetadata(req[r].id[1], "outgoing", req[r].response[1], clock))
                            @@ metadata
            /\ Step(r, [pc |-> "pub_completed"])
    /\ UNCHANGED << error_handler, call, devteam, clock, redisUp, fs_links, campfires,
                    active_campfire, incoming, cache >>

\* lines 158-167
PublishCompleted(r) ==
    /\ req[r].pc = "pub_completed"
    /\ Step(r, [pc |-> "done",
                pubs |-> Published(r, "party_box_completed"),
                outcome |-> << [kind |-> "package", from |-> "pipeline",
                                value |-> req[r].response[1]] >>])
    /\ UNCHANGED << error_handler, call, metadata, devteam, clock, redisUp, fs_links, campfires, active_campfire,
                    incoming, outgoing, cache >>

\* lines 169-181: which except clause takes the exception
ExceptClause(exc) ==
    IF exc = "riverboat_system.SecurityValidationError" THEN "reraise" ELSE "wrap"

\* An except clause that runs a failed Package stage a second time
ExceptRetrying(r) ==
    /\ req[r].pc = "except"
    /\ IF req[r].exc = "OffloadingError"
       THEN Step(r, [pc |-> "offload", exc |-> NoneVal, faults |-> {}])
       ELSE Step(r, [pc |-> "done",
                     pubs |-> Published(r, "party_box_error"),
                     outcome |-> << [kind |-> "error", from |-> req[r].exc,
                                     value |-> "riverboat_system.RiverboatProcessingError"] >>])
    /\ UNCHANGED << error_handler, call, metadata, devteam, clock, redisUp, fs_links, campfires, active_campfire,
                    incoming, outgoing, cache >>
\* An except clause that also stores the failure as the request's outgoing record
ExceptPersistingFailure(r) ==
    /\ req[r].pc = "except"
    /\ outgoing' = (req[r].id[1] :> [error |-> req[r].exc]) @@ outgoing
    /\ Step(r, [pc |-> "done",
                pubs |-> Published(r, "party_box_error"),
                outcome |-> << [kind |-> "error", from |-> req[r].exc,
                                value |-> "riverboat_system.RiverboatProcessingError"] >>])
    /\ UNCHANGED << error_handler, call, metadata, devteam, clock, redisUp, fs_links, campfires, active_campfire,
                    incoming, cache >>

\* lines 169-181
Except(r) ==
    /\ req[r].pc = "except"
    /\ IF ExceptClause(req[r].exc) = "reraise"
       THEN Step(r, [pc |-> "done",
                     outcome |-> << [kind |-> "error", from |-> req[r].exc,
                                     value |-> "riverboat_system.SecurityValidationError"] >>])
       ELSE Step(r, [pc |-> "done",
                     pubs |-> Published(r, "party_box_error"),
                     outcome |-> << [kind |-> "error", from |-> req[r].exc,
                                     value |-> "riverboat_system.RiverboatProcessingError"] >>])
    /\ UNCHANGED << error_handler, call, metadata, devteam, clock, redisUp, fs_links, campfires, active_campfire,
                    incoming, outgoing, cache >>

(***************************************************************************)
(* The environment: time passes, the cache service becomes unreachable.     *)
(***************************************************************************)
Tick ==
    /\ clock < MaxTicks * CacheTTL
    /\ clock' = clock + CacheTTL
    /\ UNCHANGED << error_handler, call, metadata, devteam, redisUp, fs_links, campfires, active_campfire,
                    incoming, outgoing, cache, req >>

RedisFail ==
    /\ redisUp
    /\ redisUp' = FALSE
    /\ UNCHANGED << error_handler, call, metadata, devteam, clock, fs_links, campfires, active_campfire,
                    incoming, outgoing, cache, req >>

(***************************************************************************)
(* DevTeamCampfire.process, called with a validated record of some claim.  *)
(***************************************************************************)
DevTeamClaims == {"generate_code", "review_code", "execute_command"}

\* What the generation service may answer to a camper
DevTeamOutcomes(role) == IF role \in DevTeamCodeRoles THEN GenOutcomes ELSE {"error", "clean"}

DevTeamProcess ==
    /\ devteam.pc = "idle"
    /\ \E claim \in DevTeamClaims, ollama_available \in BOOLEAN :
         LET seq == DevTeamSequence(claim) IN
         \E outs \in [1..Len(seq) -> GenOutcomes] :
            /\ \A i \in 1..Len(seq) : outs[i] \in DevTeamOutcomes(seq[i])
            /\ ~ollama_available => \A i \in 1..Len(seq) : outs[i] = "clean"
            /\ devteam' = [pc |-> "done", claim |-> claim,
                           result |-> << DevTeamProcessResult(claim, ollama_available, outs, clock) >>,
                           collected |-> IF ollama_available THEN dt_collect(claim, outs) ELSE <<>>,
                           calls |-> IF ollama_available THEN dt_calls(claim) ELSE <<>>]
    /\ UNCHANGED << error_handler, call, metadata, clock, redisUp, fs_links, campfires,
                    active_campfire, incoming, outgoing, cache, req >>

Next ==
    \/ \E r \in Requests :
         \/ Receive(r) \/ CacheLookup(r) \/ PublishReceived(r) \/ Unload(r)
         \/ Security(r) \/ Route(r) \/ CamperStep(r) \/ FinishRun(r) \/ Offload(r)
         \/ CacheWrite(r) \/ StoreOutgoing(r) \/ PublishCompleted(r) \/ Except(r)
    \/ DevTeamProcess
    \/ Tick
    \/ RedisFail

Spec == Init /\ [][Next]_vars

(***************************************************************************)
(* The Validate stage on its own: one request that has been received and   *)
(* stored and is about to be unpacked, over a wider set of attachment      *)
(* paths, workspace roots and symbolic links.                              *)
(***************************************************************************)
PathSegments == {"..", "src", "app.py", "link"}

AttachmentPaths ==
    {<< a >> : a \in PathSegments}
    \cup {<< a, b >> : a \in PathSegments, b \in PathSegments}
    \cup { << "src", "..", "app.py" >>, << "", "etc", "passwd" >>, << "C:" >>,
           << "..\\etc" >> }

WorkspaceRoots == { << "", "ws" >>, << "" >> }

LinkSets == { {}, {[from |-> << "ws", "link" >>, to |-> << "ws2" >>]} }

ValidateEnvelopes ==
    { [ Envelope("generate_code", AddTask, "linux", << Attachment(p) >>, NoneVal)
          EXCEPT !.workspace_root = w ] : p \in AttachmentPaths, w \in WorkspaceRoots }

InitValidate ==
    /\ clock = 0
    /\ redisUp = FALSE
    /\ fs_links \in LinkSets
    /\ campfires = <<>>
    /\ active_campfire = get_default_campfire(campfires)
    /\ outgoing = << >>
    /\ cache = << >>
    /\ devteam = [pc |-> "absent", claim |-> NoneVal, result |-> <<>>, collected |-> <<>>,
                  calls |-> <<>>]
    /\ \E env \in ValidateEnvelopes :
         LET id == generate_party_box_id(env, clock) IN
         /\ incoming = (id :> env)
         /\ metadata = (id :> StorageMetadata(id, "incoming", env, clock))
         /\ error_handler = NoErrors
         /\ call = NoCall
         /\ req = [r \in Requests |->
                     IF r = 1
                     THEN [pc |-> "unload", env |-> << env >>, id |-> << id >>,
                           cache_key |-> << CacheKey(env) >>,
                           swallowed |-> {"_process_party_box_context"}] @@ IdleRequest
                     ELSE IdleRequest]

NextValidate ==
    \E r \in Requests : Unload(r) \/ Security(r) \/ Route(r) \/ Except(r)

SpecValidate == InitValidate /\ [][NextValidate]_vars

(***************************************************************************)
(* The size ceilings of the Validate stage: one received request whose     *)
(* envelope carries one or two attachments of a size at or around the      *)
(* per-file ceiling, under one path or two.                                *)
(***************************************************************************)
SizedContents ==
    { [bytes |-> b, cats |-> {}, flags |-> {}] :
        b \in {16, max_file_size - 1, max_file_size, max_file_size + 1} }

SizedAttachments ==
    { [path |-> p, content |-> c, type |-> "text/plain"] :
        p \in { << "app.py" >>, << "b.py" >> }, c \in SizedContents }

SizeEnvelopes ==
    { Envelope("generate_code", AddTask, "linux", atts, NoneVal) :
        atts \in {<< a >> : a \in SizedAttachments}
                 \cup {<< a, b >> : a \in SizedAttachments, b \in SizedAttachments} }

InitSizes ==
    /\ clock = 0
    /\ redisUp = FALSE
    /\ fs_links = {}
    /\ campfires = <<>>
    /\ active_campfire = get_default_campfire(campfires)
    /\ outgoing = << >>
    /\ cache = << >>
    /\ devteam = [pc |-> "absent", claim |-> NoneVal, result |-> <<>>, collected |-> <<>>,
                  calls |-> <<>>]
    /\ \E env \in SizeEnvelopes :
         LET id == generate_party_box_id(env, clock) IN
         /\ incoming = (id :> env)
         /\ metadata = (id :> StorageMetadata(id, "incoming", env, clock))
         /\ error_handler = NoErrors
         /\ call = NoCall
         /\ req = [r \in Requests |->
                     IF r = 1
                     THEN [pc |-> "unload", env |-> << env >>, id |-> << id >>,
                           cache_key |-> << CacheKey(env) >>,
                           swallowed |-> {"_process_party_box_context"}] @@ IdleRequest
                     ELSE IdleRequest]

SpecSizes == InitSizes /\ [][NextValidate]_vars
(***************************************************************************)
(* Failing notifications: two received requests that differ in the task    *)
(* text only (so that neither their ids nor their cache keys meet).  The   *)
(* publishes of the first all succeed; those of the second fail on any     *)
(* subset of the channels.                                                 *)
(***************************************************************************)
Channels ==
    { "party_box_received", "party_box_security_failed", "party_box_completed",
      "party_box_error" }

TwinOf(env) == [env EXCEPT !.task.text = "add two numbers, please"]

ReceivedRequest(env, id, faults) ==
    [pc |-> "cache_get", env |-> << env >>, id |-> << id >>,
     cache_key |-> << CacheKey(env) >>, pub_faults |-> faults,
     swallowed |-> {"_process_party_box_context"}] @@ IdleRequest

InitPublish ==
    /\ clock = 0
    /\ redisUp = TRUE
    /\ fs_links = {}
    /\ campfires = << DevTeamManifest >>
    /\ active_campfire = get_default_campfire(campfires)
    /\ outgoing = << >>
    /\ cache = << >>
    /\ devteam = [pc |-> "absent", claim |-> NoneVal, result |-> <<>>, collected |-> <<>>,
                  calls |-> <<>>]
    /\ \E env \in Envelopes, faults \in SUBSET Channels :
         LET id1 == generate_party_box_id(env, clock)
             id2 == generate_party_box_id(TwinOf(env), clock)
         IN /\ incoming = (id1 :> env) @@ (id2 :> TwinOf(env))
            /\ metadata = (id1 :> StorageMetadata(id1, "incoming", env, clock))
                          @@ (id2 :> StorageMetadata(id2, "incoming", TwinOf(env), clock))
            /\ error_handler = NoErrors
            /\ call = NoCall
            /\ req = [r \in Requests |->
                        IF r = 1 THEN ReceivedRequest(env, id1, {})
                        ELSE IF r = 2 THEN ReceivedRequest(TwinOf(env), id2, faults)
                        ELSE IdleRequest]

NextPublish ==
    \E r \in Requests :
        \/ CacheLookup(r) \/ PublishReceived(r) \/ Unload(r) \/ Security(r) \/ Route(r)
        \/ CamperStep(r) \/ FinishRun(r) \/ Offload(r) \/ CacheWrite(r)
        \/ StoreOutgoing(r) \/ PublishCompleted(r) \/ Except(r)

SpecPublish == InitPublish /\ [][NextPublish]_vars
(***************************************************************************)
(* Failing stages, store writes and cache calls: one request for which any *)
(* subset of the Unpack stage, the Package stage, the two store writes and *)
(* the two cache calls raises.                                             *)
(* (The Collaborate stage raises by itself under two of the campfires.)    *)
(***************************************************************************)
FaultPoints ==
    { "store_incoming", "cache_get", "Unpack", "Package", "cache_set", "store_outgoing" }

InitFaults ==
    /\ clock = 0
    /\ redisUp \in BOOLEAN
    /\ fs_links = {}
    /\ campfires \in { << m >> : m \in Manifests }
    /\ active_campfire = get_default_campfire(campfires)
    /\ incoming = << >>
    /\ outgoing = << >>
    /\ metadata = << >>
    /\ cache = << >>
    /\ error_handler = NoErrors
    /\ call = NoCall
    /\ devteam = [pc |-> "absent", claim |-> NoneVal, result |-> <<>>, collected |-> <<>>,
                  calls |-> <<>>]
    /\ \E f \in SUBSET FaultPoints :
         req = [r \in Requests |-> IF r = 1 THEN [IdleRequest EXCEPT !.faults = f]
                                   ELSE IdleRequest]

NextFaults ==
    \E r \in {1} :
        \/ Receive(r) \/ CacheLookup(r) \/ PublishReceived(r) \/ Unload(r)
        \/ Security(r) \/ Route(r) \/ CamperStep(r) \/ FinishRun(r) \/ Offload(r)
        \/ CacheWrite(r) \/ StoreOutgoing(r) \/ PublishCompleted(r) \/ Except(r)

SpecFaults == InitFaults /\ [][NextFaults]_vars
(***************************************************************************)
(* Concurrent requests: every client submits at once, and the requests     *)
(* take their steps in any order.  A step of receive_party_box ends where  *)
(* the coroutine awaits the cache service, the generation service or a     *)
(* stage, so the steps of two requests interleave as the actions do.       *)
(***************************************************************************)
InitRace ==
    /\ clock = 0
    /\ redisUp = TRUE
    /\ fs_links = {}
    /\ campfires \in { << DevTeamManifest >>, << NoAuditorManifest >> }
    /\ active_campfire = get_default_campfire(campfires)
    /\ incoming = << >>
    /\ outgoing = << >>
    /\ metadata = << >>
    /\ cache = << >>
    /\ error_handler = NoErrors
    /\ call = NoCall
    /\ devteam = [pc |-> "absent", claim |-> NoneVal, result |-> <<>>, collected |-> <<>>,
                  calls |-> <<>>]
    /\ req = [r \in Requests |-> IdleRequest]

NextRace ==
    \/ \E r \in Requests :
         \/ StoreIncoming(r) \/ CacheLookup(r) \/ PublishReceived(r) \/ Unload(r)
         \/ Security(r) \/ Route(r) \/ CamperStep(r) \/ FinishRun(r) \/ Offload(r)
         \/ CacheWrite(r) \/ StoreOutgoing(r) \/ PublishCompleted(r) \/ Except(r)
    \/ Tick

SpecRace == InitRace /\ [][NextRace]_vars
(***************************************************************************)
(* The campfire registry and the management calls of the riverboat.  A     *)
(* manifest file is [valid, manifest]: loading a file that is not valid    *)
(* raises, which load_all_campfires logs.  The directory of a call is the  *)
(* list of its manifest files in the order glob yields them.               *)
(***************************************************************************)
\* self.campfires[campfire.name] = campfire, on a dict in insertion order
DictPut(cfs, campfire) ==
    IF \E i \in 1..Len(cfs) : cfs[i].name = campfire.name
    THEN [i \in 1..Len(cfs) |-> IF cfs[i].name = campfire.name THEN campfire ELSE cfs[i]]
    ELSE Append(cfs, campfire)

\* CampfireRegistry.load_all_campfires
RECURSIVE load_all_campfires(_, _)
load_all_campfires(cfs, files) ==
    IF files = <<>> THEN cfs
    ELSE load_all_campfires(IF Head(files).valid THEN DictPut(cfs, Head(files).manifest) ELSE cfs,
                            Tail(files))

\* CampfireRegistry.get_campfire
get_campfire(cfs, name) ==
    IF \E i \in 1..Len(cfs) : cfs[i].name = name
    THEN << cfs[CHOOSE i \in 1..Len(cfs) : cfs[i].name = name] >>
    ELSE <<>>

\* CampfireRegistry.list_campfires
list_campfires(cfs) == [i \in 1..Len(cfs) |-> cfs[i].name]

\* The devteam manifest after an edit: the same name, the pattern scan off
DevTeamManifestEdited == [DevTeamManifest EXCEPT !.security.enableSecurityValidation = FALSE]

ManifestFiles ==
    { [valid |-> TRUE, manifest |-> m] :
        m \in {DevTeamManifest, DevTeamManifestEdited, NoAuditorManifest, EmptyManifest} }
    \cup { [valid |-> FALSE, manifest |-> DevTeamManifest] }

ManifestDirectories ==
    { <<>> } \cup { << f >> : f \in ManifestFiles }
    \cup { << f, g >> : f \in ManifestFiles, g \in ManifestFiles }

CampfireNames == {"devteam", "lean", "empty", "unknown"}

\* RiverboatSystem.initialize_campfires, called at startup and again for
\* every reload of the manifests
InitializeCampfires ==
    \E files \in ManifestDirectories :
        /\ campfires' = load_all_campfires(campfires, files)
        /\ active_campfire' = get_default_campfire(campfires')
        /\ call' = [op |-> "initialize_campfires", arg |-> files, result |-> NoneVal]
        /\ UNCHANGED << error_handler, metadata, devteam, clock, redisUp, fs_links,
                        incoming, outgoing, cache, req >>

\* A switch that falls back to the default campfire for an unknown name
SetActiveCampfireOrDefault(campfire_name) ==
    LET campfire == get_campfire(campfires, campfire_name) IN
    /\ active_campfire' = IF campfire # <<>> THEN campfire ELSE get_default_campfire(campfires)
    /\ call' = [op |-> "set_active_campfire", arg |-> campfire_name, result |-> campfire # <<>>]
    /\ UNCHANGED << error_handler, metadata, devteam, clock, redisUp, fs_links, campfires,
                    incoming, outgoing, cache, req >>

\* RiverboatSystem.set_active_campfire
SetActiveCampfire(campfire_name) ==
    LET campfire == get_campfire(campfires, campfire_name) IN
    /\ active_campfire' = IF campfire # <<>> THEN campfire ELSE active_campfire
    /\ call' = [op |-> "set_active_campfire", arg |-> campfire_name, result |-> campfire # <<>>]
    /\ UNCHANGED << error_handler, metadata, devteam, clock, redisUp, fs_links, campfires,
                    incoming, outgoing, cache, req >>

\* RiverboatSystem.__init__: nothing loaded yet, no active campfire
InitRegistry ==
    /\ clock = 0
    /\ redisUp = FALSE
    /\ fs_links = {}
    /\ campfires = <<>>
    /\ active_campfire = <<>>
    /\ incoming = << >>
    /\ outgoing = << >>
    /\ metadata = << >>
    /\ cache = << >>
    /\ error_handler = NoErrors
    /\ call = NoCall
    /\ devteam = [pc |-> "absent", claim |-> NoneVal, result |-> <<>>, collected |-> <<>>,
                  calls |-> <<>>]
    /\ req = [r \in Requests |-> IdleRequest]

NextRegistry ==
    \/ InitializeCampfires
    \/ \E campfire_name \in CampfireNames : SetActiveCampfire(campfire_name)

SpecRegistry == InitRegistry /\ [][NextRegistry]_vars
(***************************************************************************)
(* The deadline of the /mcp endpoint: handle_mcp_request runs              *)
(* receive_party_box under asyncio.wait_for.  When the deadline expires    *)
(* the coroutine is cancelled where it is suspended, that is, where it     *)
(* waits for the cache service or the generation service; the cancellation *)
(* is no Exception, so no except clause of receive_party_box takes it.     *)
(***************************************************************************)
\* ErrorHandler.handle_timeout_error
handle_timeout_error(handler, now) ==
    create_error(handler, "timeout", "OPERATION_TIMEOUT", "high", now)

\* Whether request r is suspended on a call to a service
Suspended(r) ==
    \/ redisUp /\ req[r].pc \in {"cache_get", "pub_received", "cache_set", "pub_completed"}
    \/ redisUp /\ req[r].pc = "except" /\ ExceptClause(req[r].exc) = "wrap"
    \/ /\ req[r].pc = "campers"
       /\ req[r].run[1].i <= Len(req[r].run[1].sequence)
       /\ req[r].run[1].sequence[req[r].run[1].i] \in DOMAIN req[r].run[1].campfire.campers

\* mcp_server.py lines 704-727
Deadline(r) ==
    /\ Suspended(r)
    /\ error_handler' = handle_timeout_error(error_handler, clock)
    /\ Step(r, [pc |-> "done",
                outcome |-> << [kind |-> "error", from |-> "asyncio.TimeoutError",
                                value |-> "OPERATION_TIMEOUT"] >>])
    /\ UNCHANGED << call, metadata, devteam, clock, redisUp, fs_links, campfires,
                    active_campfire, incoming, outgoing, cache >>

NextDeadline ==
    \E r \in {1} :
        \/ StoreIncoming(r) \/ CacheLookup(r) \/ PublishReceived(r) \/ Unload(r)
        \/ Security(r) \/ Route(r) \/ CamperStep(r) \/ FinishRun(r) \/ Offload(r)
        \/ CacheWrite(r) \/ StoreOutgoing(r) \/ PublishCompleted(r) \/ Except(r)
        \/ Deadline(r)

SpecDeadline == InitRace /\ [][NextDeadline]_vars
(***************************************************************************)
(* The error history on its own: the handlers of the server record one     *)
(* error after another (only the first MaxTimeouts of them may be          *)
(* timeouts, the others are security rejections), and the operator clears  *)
(* the history through the server's endpoint.                              *)
(***************************************************************************)
MaxErrors == 1002
MaxTimeouts == 2

RecordSecurityError ==
    /\ Tracked(error_handler) < MaxErrors
    /\ error_handler' =
         handle_security_validation_error(error_handler, "comprehensive_validation", clock)
    /\ UNCHANGED << call, metadata, devteam, clock, redisUp, fs_links, campfires,
                    active_campfire, incoming, outgoing, cache, req >>

RecordTimeoutError ==
    /\ Tracked(error_handler) < MaxTimeouts
    /\ error_handler' = handle_timeout_error(error_handler, clock)
    /\ UNCHANGED << call, metadata, devteam, clock, redisUp, fs_links, campfires,
                    active_campfire, incoming, outgoing, cache, req >>

\* ErrorHandler.clear_error_history
ClearErrorHistory ==
    /\ error_handler # NoErrors
    /\ error_handler' = NoErrors
    /\ UNCHANGED << call, metadata, devteam, clock, redisUp, fs_links, campfires,
                    active_campfire, incoming, outgoing, cache, req >>

NextErrors == RecordSecurityError \/ RecordTimeoutError \/ ClearErrorHistory

SpecErrors == InitRegistry /\ [][NextErrors]_vars
(***************************************************************************)
(* Retention: a store that holds 80 to MaxStored old records (ten days    *)
(* old, one second apart) and none or ListLimit records of the last        *)
(* seconds, no two of the same age, and an operator who purges it.         *)
(***************************************************************************)
MaxStored == 102
SecondsPerDay == 86400
\* list_party_boxes, the default of its limit parameter
ListLimit == 100

\* PartyBoxStorageManager.list_party_boxes, the ids of the records it returns:
\* the records of the direction are sorted by timestamp, newest first, and
\* cut to [offset : offset + limit], which leaves the records that have at
\* least offset and fewer than offset + limit newer records before them.
list_party_boxes(md, direction, limit, offset) ==
    LET listed == { id \in DOMAIN md : direction = NoneVal \/ md[id].direction = direction }
        newer(id) == Cardinality({ j \in listed : md[j].timestamp > md[id].timestamp })
    IN  { id \in listed : offset <= newer(id) /\ newer(id) < offset + limit }

Without(f, ids) == [k \in DOMAIN f \ ids |-> f[k]]

\* PartyBoxStorageManager.cleanup_old_party_boxes, through the riverboat:
\* every listed record older than the cutoff is deleted (delete_party_box
\* removes its payloads and its metadata) and counted
CleanupOldPartyBoxes(days_old) ==
    LET cutoff_date == clock - days_old * SecondsPerDay
        metadata_list == list_party_boxes(metadata, NoneVal, ListLimit, 0)
        cleaned == { id \in metadata_list : metadata[id].timestamp < cutoff_date }
    IN  /\ incoming' = Without(incoming, cleaned)
        /\ outgoing' = Without(outgoing, cleaned)
        /\ metadata' = Without(metadata, cleaned)
        /\ call' = [op |-> "cleanup_old_party_boxes", arg |-> days_old,
                    result |-> Cardinality(cleaned)]
        /\ UNCHANGED << error_handler, devteam, clock, redisUp, fs_links, campfires,
                        active_campfire, cache, req >>

PurgedEnvelope == Envelope("review_code", ReviewTask, "linux", <<>>, NoneVal)

\* The store after records were written at the given times
StoredAt(times) ==
    [ id \in { generate_party_box_id(PurgedEnvelope, t) : t \in times } |->
        StorageMetadata(id, "incoming", PurgedEnvelope, id[1]) ]

InitPurge ==
    /\ clock = 10 * SecondsPerDay + MaxStored
    /\ redisUp = FALSE
    /\ fs_links = {}
    /\ campfires = <<>>
    /\ active_campfire = <<>>
    /\ \E old \in (ListLimit - 20)..MaxStored, recent \in {0, ListLimit} :
         /\ metadata = StoredAt(1..old \cup (clock - recent)..(clock - 1))
         /\ incoming = [id \in DOMAIN metadata |-> PurgedEnvelope]
    /\ outgoing = << >>
    /\ cache = << >>
    /\ error_handler = NoErrors
    /\ call = NoCall
    /\ devteam = [pc |-> "absent", claim |-> NoneVal, result |-> <<>>, collected |-> <<>>,
                  calls |-> <<>>]
    /\ req = [r \in Requests |-> IdleRequest]

NextPurge == \E days_old \in {1, 30} : CleanupOldPartyBoxes(days_old)

SpecPurge == InitPurge /\ [][NextPurge]_vars
(***************************************************************************)
(* The pattern scan of the Validate stage: one received request whose task *)
(* text and whose attachment's content match patterns of none, one or two  *)
(* of the rule categories, the attachment being inside the workspace or    *)
(* one level above it; and requests with two attachments, under one path   *)
(* or under two.                                                           *)
(***************************************************************************)
ContentMatches ==
    { {} } \cup { {RuleCategories[i]} : i \in 1..Len(RuleCategories) }
    \cup { {"network_access", "file_system"}, {"network_access", "code_injection"} }

TaskMatches == { {}, {"path_traversal"}, {"network_access"}, {"dangerous_commands"} }

PatternEnvelopes ==
    { Envelope("generate_code", [AddTask EXCEPT !.cats = t], "linux",
               << [path |-> p, content |-> [CleanContent EXCEPT !.cats = c],
                   type |-> "text/plain"] >>, NoneVal) :
        t \in TaskMatches, c \in ContentMatches,
        p \in { << "app.py" >>, << "..", "app.py" >> } }
    \cup
    { Envelope("generate_code", AddTask, "linux",
               << [path |-> << "app.py" >>, content |-> [CleanContent EXCEPT !.cats = c1],
                   type |-> "text/plain"],
                  [path |-> p, content |-> [CleanContent EXCEPT !.cats = c2],
                   type |-> "text/plain"] >>, NoneVal) :
        c1 \in { {}, {"code_injection"}, {"network_access"} },
        c2 \in { {}, {"code_injection"}, {"network_access"} },
        p \in { << "app.py" >>, << "b.py" >> } }

InitPatterns ==
    /\ clock = 0
    /\ redisUp = FALSE
    /\ fs_links = {}
    /\ campfires = <<>>
    /\ active_campfire = get_default_campfire(campfires)
    /\ outgoing = << >>
    /\ cache = << >>
    /\ devteam = [pc |-> "absent", claim |-> NoneVal, result |-> <<>>, collected |-> <<>>,
                  calls |-> <<>>]
    /\ error_handler = NoErrors
    /\ call = NoCall
    /\ \E env \in PatternEnvelopes :
         LET id == generate_party_box_id(env, clock) IN
         /\ incoming = (id :> env)
         /\ metadata = (id :> StorageMetadata(id, "incoming", env, clock))
         /\ req = [r \in Requests |->
                     IF r = 1
                     THEN [pc |-> "unload", env |-> << env >>, id |-> << id >>,
                           cache_key |-> << CacheKey(env) >>,
                           swallowed |-> {"_process_party_box_context"}] @@ IdleRequest
                     ELSE IdleRequest]

SpecPatterns == InitPatterns /\ [][NextValidate]_vars
(***************************************************************************)
(* The Package stage on its own: one request whose Collaborate stage has   *)
(* returned up to MaxResponses Responses of any type, with none, one or    *)
(* two files and none or one command each.                                 *)
(***************************************************************************)
MaxResponses == 3

PackagedResponses ==
    { [ camper_role |-> role, response_type |-> type, content |-> "clean",
        files_to_create |-> files, commands_to_execute |-> commands,
        confidence_score |-> DefaultThreshold, specializations |-> {} ] :
        role \in {"BackEndDev"}, type \in {"code", "suggestion"},
        files \in { <<>>, << [path |-> << "app.py" >>, content |-> "clean"],
                            [path |-> << "test_app.py" >>, content |-> "clean"] >> },
        commands \in { <<>>, << "pip install flask" >> } }
    \cup
    { [ camper_role |-> "DevOps", response_type |-> "command", content |-> "clean",
        files_to_create |-> << [path |-> << "Dockerfile" >>, content |-> "clean"] >>,
        commands_to_execute |-> << "docker build .", "docker run app" >>,
        confidence_score |-> DefaultThreshold, specializations |-> {} ] }

ResponseLists ==
    UNION { [1..n -> PackagedResponses] : n \in 0..MaxResponses }

InitPackage ==
    /\ clock = 0
    /\ redisUp = TRUE
    /\ fs_links = {}
    /\ campfires = << DevTeamManifest >>
    /\ active_campfire = get_default_campfire(campfires)
    /\ outgoing = << >>
    /\ cache = << >>
    /\ devteam = [pc |-> "absent", claim |-> NoneVal, result |-> <<>>, collected |-> <<>>,
                  calls |-> <<>>]
    /\ error_handler = NoErrors
    /\ call = NoCall
    /\ \E responses \in ResponseLists :
         LET env == Envelope("generate_code", AddTask, "linux", <<>>, NoneVal)
             id == generate_party_box_id(env, clock)
         IN  /\ incoming = (id :> env)
             /\ metadata = (id :> StorageMetadata(id, "incoming", env, clock))
             /\ req = [r \in Requests |->
                         IF r = 1
                         THEN [pc |-> "offload", env |-> << env >>, id |-> << id >>,
                               cache_key |-> << CacheKey(env) >>,
                               result |-> << [ camper_responses |-> responses,
                                               os_type |-> env.os,
                                               workspace_root |-> env.workspace_root,
                                               current_file |-> env.current_file ] >>,
                               swallowed |-> {"_process_party_box_context"}] @@ IdleRequest
                         ELSE IdleRequest]

NextPackage ==
    \E r \in {1} : Offload(r) \/ CacheWrite(r) \/ StoreOutgoing(r) \/ PublishCompleted(r)

SpecPackage == InitPackage /\ [][NextPackage]_vars
\* RiverboatSystem.get_party_box_status: what it reports of the metadata last
\* written under the id, None for an id without metadata
get_party_box_status(party_box_id) ==
    IF party_box_id \in DOMAIN metadata
    THEN << [ party_box_id |-> party_box_id,
              direction |-> metadata[party_box_id].direction,
              timestamp |-> metadata[party_box_id].timestamp,
              status |-> IF metadata[party_box_id].direction = "outgoing"
                         THEN "completed" ELSE "processing" ] >>
    ELSE <<>>
(***************************************************************************)
(* Failures of the cache service met by a request whose key the cache      *)
(* already answers: the entry was written by an earlier request and has    *)
(* not expired.                                                            *)
(***************************************************************************)
\* The Package an earlier request left in the cache
EarlierPackage ==
    OffloadingProcess([ camper_responses |->
                          << CHOOSE p \in PackagedResponses :
                                 p.response_type = "code" /\ p.files_to_create = <<>>
                                    /\ p.commands_to_execute = <<>> >>,
                        os_type |-> "linux",
                        workspace_root |-> << "", "ws" >>,
                        current_file |-> NoneVal ], 0)

CacheFaultPoints == {"cache_get", "cache_set", "store_outgoing"}

InitCacheFaults ==
    /\ clock = 0
    /\ redisUp = TRUE
    /\ fs_links = {}
    /\ campfires = << DevTeamManifest >>
    /\ active_campfire = get_default_campfire(campfires)
    /\ incoming = << >>
    /\ outgoing = << >>
    /\ metadata = << >>
    /\ cache \in { << >>,
                   [k \in {CacheKey(e) : e \in Envelopes} |->
                       [value |-> EarlierPackage, expires |-> CacheTTL]] }
    /\ error_handler = NoErrors
    /\ call = NoCall
    /\ devteam = [pc |-> "absent", claim |-> NoneVal, result |-> <<>>, collected |-> <<>>,
                  calls |-> <<>>]
    /\ \E f \in SUBSET CacheFaultPoints :
         req = [r \in Requests |-> IF r = 1 THEN [IdleRequest EXCEPT !.faults = f]
                                   ELSE IdleRequest]

SpecCacheFaults == InitCacheFaults /\ [][NextFaults]_vars
(***************************************************************************)
(* Progress of a request.  The event loop runs every coroutine that is     *)
(* ready, and a request that waits for the cache service or the generation *)
(* service is resumed when the call returns or raises, or is cancelled by  *)
(* the deadline of handle_mcp_request: a request that can take a step      *)
(* eventually takes one.                                                   *)
(***************************************************************************)
SpecLive == InitFaults /\ [][NextDeadline]_vars /\ WF_vars(NextDeadline)
(***************************************************************************)
(* Properties.                                                             *)
(***************************************************************************)
Stages == << "Unpack", "Validate", "Collaborate", "Package" >>

StageIndex(stage) == CHOOSE k \in 1..Len(Stages) : Stages[k] = stage

Rejected(r) == req[r].validated # <<>> /\ ~req[r].validated[1].secure

Invoked(r, stage) ==
    \E i \in 1..Len(req[r].trace) : req[r].trace[i] = << stage, "call" >>

AnsweredFromCache(r) == req[r].outcome # <<>> /\ req[r].outcome[1].from = "cache"

AnsweredByPipeline(r) ==
    /\ req[r].outcome # <<>>
    /\ req[r].outcome[1].kind = "package"
    /\ req[r].outcome[1].from = "pipeline"

CompletedWithPackage(r) ==
    req[r].pc = "done" /\ req[r].outcome[1].kind = "package"

PackageOf(r) == req[r].outcome[1].value

SameFingerprint(a, b) ==
    /\ req[a].env[1].claim = req[b].env[1].claim
    /\ req[a].env[1].task.text = req[b].env[1].task.text

\* C1: for every request whose verdict is not secure, neither the
\* Collaborate stage nor the Package stage is ever invoked.
C1_RejectedNeverCollaborates ==
    \A r \in Requests :
        Rejected(r) => ~Invoked(r, "Collaborate") /\ ~Invoked(r, "Package")

C1_Witness ==
    \E r \in Requests : Rejected(r) /\ req[r].pc = "done" /\ Invoked(r, "Validate")

\* The stage events of a request are in pipeline order: a stage is called
\* at most once, the first stage first, every other stage right after the
\* stage before it returned, and a stage returns or raises right after its call.
InPipelineOrder(t) ==
    \A i \in 1..Len(t) :
        LET k == StageIndex(t[i][1]) IN
        IF t[i][2] = "call"
        THEN /\ IF k = 1 THEN i = 1
                ELSE i > 1 /\ t[i - 1] = << Stages[k - 1], "return" >>
             /\ \A j \in 1..Len(t) : t[j] = t[i] => j = i
        ELSE i > 1 /\ t[i - 1] = << t[i][1], "call" >>

\* C2: for every request not answered from the cache, the stages are invoked
\* in the order Unpack, Validate, Collaborate, Package, each at most once and
\* each only after the previous stage has returned.
C2_StagesInOrder ==
    \A r \in Requests : ~AnsweredFromCache(r) => InPipelineOrder(req[r].trace)

C2_Witness ==
    \E r \in Requests :
        /\ req[r].pc = "done"
        /\ AnsweredByPipeline(r)
        /\ \A k \in 1..Len(Stages) : Invoked(r, Stages[k])

SecurityErrors ==
    { "riverboat_system.SecurityValidationError",
      "processing_campfires.SecurityValidationError",
      "error_handler.SecurityValidationError" }

\* C3: when the Validate stage judges an envelope not secure, receive
\* surfaces a Security error to its caller, not a Processing error.
C3_RejectionSurfacesSecurityError ==
    \A r \in Requests :
        Rejected(r) /\ req[r].pc = "done" =>
            /\ req[r].outcome[1].kind = "error"
            /\ req[r].outcome[1].value \in SecurityErrors

\* C4: after a request is rejected by validation nothing further is persisted
\* for it: no outgoing record is stored under its id, and no step of it
\* writes the cache or the outgoing store.
C4_RejectedPersistsNothing ==
    /\ [](\A r \in Requests : Rejected(r) => req[r].id[1] \notin DOMAIN outgoing)
    /\ [][\A r \in Requests :
            Rejected(r) /\ req'[r] # req[r] => cache' = cache /\ outgoing' = outgoing]_vars

C4_Witness ==
    \E r \in Requests :
        /\ Rejected(r) /\ req[r].pc = "done"
        /\ req[r].id[1] \in DOMAIN incoming
        /\ req[r].id[1] \notin DOMAIN outgoing
        /\ req[r].cache_key[1] \notin DOMAIN cache

GateStatus(result) ==
    IF "workflow_metadata" \in DOMAIN result
    THEN DictGet(result.workflow_metadata, "audit_gate_status", NoneVal)
    ELSE IF "collaboration_metadata" \in DOMAIN result
         THEN DictGet(result.collaboration_metadata, "audit_gate_status", NoneVal)
         ELSE NoneVal

LowConfidence(responses) ==
    \E i \in 1..Len(responses) : responses[i].confidence_score < GateThreshold

FileMatches(response, patterns) ==
    \E j \in 1..Len(response.files_to_create), pat \in patterns :
        Contains(response.files_to_create[j].content, pat)

DangerousFile(responses, patterns) ==
    \E i \in 1..Len(responses) : FileMatches(responses[i], patterns)

DangerousCodeFile(responses, patterns) ==
    \E i \in 1..Len(responses) :
        responses[i].response_type = "code" /\ FileMatches(responses[i], patterns)

DangerousPatterns == {"eval("}

\* The runs of the manifest-driven campfire the riverboat has collected
GenericRuns == {r \in Requests : req[r].result # <<>>}

\* The gate of a manifest-driven run is applied: its workflow sets auditGate
\* and an Auditor configured as gatekeeper is registered
GenericGateApplies(r) ==
    LET run == req[r].run[1] IN
    /\ run.workflow # <<>>
    /\ run.workflow[1].auditGate
    /\ "Auditor" \in DOMAIN run.campfire.campers
    /\ run.campfire.campers["Auditor"].gatekeeper

\* The standalone DevTeam campfire has run its campers and its gate
DevTeamGateApplies ==
    /\ devteam.result # <<>>
    /\ devteam.result[1].ollama_available
    /\ devteam.claim # "review_code"

\* C6 as stated: in every collaboration run, a Response with confidence
\* below 0.7 or a generated file matching a dangerous pattern makes the
\* run's gate status BLOCKED.
C6_EveryRunGatedAsStated ==
    /\ \A r \in GenericRuns :
         LET result == req[r].result[1] IN
         ( \/ LowConfidence(result.camper_responses)
           \/ DangerousFile(result.camper_responses, DangerousPatterns) )
         => GateStatus(result) = "BLOCKED"
    /\ devteam.result # <<>> =>
         LET result == devteam.result[1] IN
         ( \/ LowConfidence(result.camper_responses)
           \/ DangerousFile(result.camper_responses, DangerousPatterns) )
         => GateStatus(result) = "BLOCKED"

\* C6, amended: in every run whose gate is applied (a workflow with auditGate
\* set and a gatekeeper Auditor registered; a DevTeam run with its campers
\* and a claim other than review_code), a Response with confidence below 0.7,
\* or a file of a code Response matching a dangerous pattern that the
\* campfire scans for, makes the run's gate status BLOCKED.
C6_AppliedGateBlocks ==
    /\ \A r \in GenericRuns :
         LET result == req[r].result[1]
             security == req[r].run[1].campfire.security
         IN GenericGateApplies(r) =>
              ( ( \/ LowConfidence(result.camper_responses)
                  \/ /\ security.enableSecurityValidation
                     /\ DangerousCodeFile(result.camper_responses, security.dangerousPatterns) )
                => GateStatus(result) = "BLOCKED" )
    /\ DevTeamGateApplies =>
         LET result == devteam.result[1] IN
         ( \/ LowConfidence(result.camper_responses)
           \/ DangerousCodeFile(result.camper_responses, DangerousPatterns) )
         => GateStatus(result) = "BLOCKED"

C6_Witness ==
    \E r \in GenericRuns :
        LET result == req[r].result[1] IN
        /\ GenericGateApplies(r)
        /\ ~LowConfidence(result.camper_responses)
        /\ DangerousCodeFile(result.camper_responses, DangerousPatterns)
        /\ GateStatus(result) = "BLOCKED"

IsBlocked(response) == DictGet(response, "publication_blocked", FALSE) = TRUE

GateConsistent(responses, status) ==
    LET code == {i \in 1..Len(responses) : responses[i].response_type = "code"} IN
    /\ status = "BLOCKED" =>
         /\ \A i \in code : IsBlocked(responses[i])
         /\ \A i \in code, j \in code : responses[i].block_reason = responses[j].block_reason
    /\ status = "PASSED" =>
         \A i \in 1..Len(responses) : "publication_blocked" \notin DOMAIN responses[i]

\* C7: whenever a run reports gate status BLOCKED, every Response of type
\* code in it has publicationBlocked = true with one shared block reason;
\* whenever it reports PASSED, no Response of the run has publicationBlocked set.
C7_GateMarksResponses ==
    /\ \A r \in GenericRuns :
         GateConsistent(req[r].result[1].camper_responses, GateStatus(req[r].result[1]))
    /\ devteam.result # <<>> =>
         GateConsistent(devteam.result[1].camper_responses, GateStatus(devteam.result[1]))

C7_Witness ==
    \E r \in GenericRuns :
        LET result == req[r].result[1] IN
        /\ GateStatus(result) = "BLOCKED"
        /\ \E i \in 1..Len(result.camper_responses) :
             /\ result.camper_responses[i].response_type = "code"
             /\ IsBlocked(result.camper_responses[i])

\* C8: for every Package the pipeline produces, filesToCreate is non-empty
\* only if the audit gate of the run that produced it is PASSED.
C8_FilesOnlyIfGatePassed ==
    \A r \in Requests :
        req[r].pc = "done" /\ AnsweredByPipeline(r) =>
            ( PackageOf(r).results.files_to_create # <<>>
              => GateStatus(req[r].result[1]) = "PASSED" )

\* C9: for every envelope that passes validation, the Package produced by
\* Unpack, Validate, Collaborate and Package in sequence carries the
\* workspaceRoot, targetOS and context.currentFile of the submitted envelope.
C9_RoundTripPreservesContext ==
    \A r \in Requests :
        req[r].pc = "done" /\ AnsweredByPipeline(r) =>
            /\ PackageOf(r).torch.workspace_root = req[r].env[1].workspace_root
            /\ PackageOf(r).torch.os = req[r].env[1].os
            /\ PackageOf(r).torch.context.current_file = req[r].env[1].current_file

HasDotDotSegment(p) == \E i \in 1..Len(p) : p[i] = ".."

\* C10: a path with a ".." segment or an absolute prefix makes the verdict
\* not secure, and no envelope judged secure has an attachment that resolves
\* outside the resolved workspace root.
C10_SecureStaysInsideWorkspace ==
    \A r \in Requests :
        req[r].validated # <<>> /\ req[r].validated[1].secure =>
            \A i \in 1..Len(req[r].env[1].attachments) :
                LET p == req[r].env[1].attachments[i].path
                    w == req[r].env[1].workspace_root
                IN /\ ~HasDotDotSegment(p)
                   /\ ~IsAbsolutePath(p)
                   /\ IsInside(ResolveIn(w, p, fs_links), ResolveRoot(w, fs_links))

\* A rejected request whose caller gets the Processing error
C3_RejectionWrapped ==
    \E r \in Requests :
        /\ Rejected(r) /\ req[r].pc = "done"
        /\ req[r].outcome[1].from = "processing_campfires.SecurityValidationError"
        /\ req[r].outcome[1].value = "riverboat_system.RiverboatProcessingError"

\* A Package that carries files although its run's gate is BLOCKED
C8_BlockedPackageWithFiles ==
    \E r \in Requests :
        /\ req[r].pc = "done" /\ AnsweredByPipeline(r)
        /\ GateStatus(req[r].result[1]) = "BLOCKED"
        /\ PackageOf(r).results.files_to_create # <<>>

\* A Package of a windows envelope that says linux and has lost the root
C9_ContextLost ==
    \E r \in Requests :
        /\ req[r].pc = "done" /\ AnsweredByPipeline(r)
        /\ req[r].env[1].os = "windows" /\ PackageOf(r).torch.os = "linux"
        /\ req[r].env[1].workspace_root = << "", "ws" >>
        /\ PackageOf(r).torch.workspace_root = << "" >>

\* An envelope judged secure whose attachment resolves outside the workspace
C10_EscapeJudgedSecure ==
    \E r \in Requests :
        /\ req[r].validated # <<>> /\ req[r].validated[1].secure
        /\ \E i \in 1..Len(req[r].env[1].attachments) :
             ~IsInside(ResolveIn(req[r].env[1].workspace_root,
                                 req[r].env[1].attachments[i].path, fs_links),
                       ResolveRoot(req[r].env[1].workspace_root, fs_links))

SizeErrorsIn(v) == SelectSeq(v.errors, LAMBDA e : e.check = "file_size_limits")

\* C11: with N the per-file ceiling, an attachment of N + 1 bytes produces a
\* file_size_limits validation error, and an envelope whose attachments are
\* all of at most N bytes, one of them of exactly N, produces none.
C11_CeilingEnforced ==
    \A r \in Requests :
        req[r].validated # <<>> =>
            LET atts == req[r].env[1].attachments
                v == req[r].validated[1]
            IN /\ (\E i \in 1..Len(atts) : atts[i].content.bytes = max_file_size + 1)
                    => SizeErrorsIn(v) # <<>>
               /\ ( /\ \E i \in 1..Len(atts) : atts[i].content.bytes = max_file_size
                    /\ \A i \in 1..Len(atts) : atts[i].content.bytes <= max_file_size )
                    => SizeErrorsIn(v) = <<>>

\* An envelope with an attachment of N + 1 bytes that is judged secure
C11_OversizedJudgedSecure ==
    \E r \in Requests :
        /\ req[r].validated # <<>> /\ req[r].validated[1].secure
        /\ \E i \in 1..Len(req[r].env[1].attachments) :
             req[r].env[1].attachments[i].content.bytes = max_file_size + 1

\* The step by which receive_party_box returns or raises
Returns(r) == req[r].pc # "done" /\ req'[r].pc = "done"

\* C12: when receive returns a Package computed by the pipeline, the store
\* holds that Package as the outgoing record under the id of the request's
\* incoming record; the cache write, made while the cache is reachable, maps
\* the request fingerprint to the Package with the fixed TTL, and the entry
\* is there when receive returns.
C12_PackagePersisted ==
    /\ [][\A r \in Requests :
            Returns(r) /\ req'[r].outcome[1].from = "pipeline" /\ req'[r].outcome[1].kind = "package"
            => /\ req[r].id[1] \in DOMAIN incoming
               /\ incoming[req[r].id[1]] = req[r].env[1]
               /\ req[r].id[1] \in DOMAIN outgoing
               /\ outgoing[req[r].id[1]] = req'[r].outcome[1].value
               /\ redisUp =>
                    /\ req[r].cache_key[1] \in DOMAIN cache
                    /\ cache[req[r].cache_key[1]].value = req'[r].outcome[1].value]_vars
    /\ [][\A r \in Requests :
            req[r].pc = "cache_set" /\ req'[r].pc # "cache_set" /\ redisUp
            => cache'[req[r].cache_key[1]] =
                 [value |-> req[r].response[1], expires |-> clock + CacheTTL]]_vars

C12_Witness ==
    \E r \in Requests :
        /\ req[r].pc = "done" /\ AnsweredByPipeline(r)
        /\ redisUp
        /\ outgoing[req[r].id[1]] = PackageOf(r)
        /\ cache[req[r].cache_key[1]].value = PackageOf(r)
        /\ cache[req[r].cache_key[1]].expires = PackageOf(r).processed_at + CacheTTL

CountOf(seq, x) == Len(SelectSeq(seq, LAMBDA e : e = x))

PublishesNow(r, channel) == CountOf(req'[r].pubs, channel) > CountOf(req[r].pubs, channel)

PackageReturned(r) ==
    \E i \in 1..Len(req[r].trace) : req[r].trace[i] = << "Package", "return" >>

\* C13: per request, the cache write, the outgoing-record write and the
\* `completed` notification happen only after the Package stage has returned,
\* and the `completed` notification is published only after the outgoing
\* record has been stored.
C13_WritesAfterPackage ==
    [][\A r \in Requests :
         req'[r] # req[r] =>
           /\ ( \/ cache' # cache
                \/ outgoing' # outgoing
                \/ PublishesNow(r, "party_box_completed") ) => PackageReturned(r)
           /\ PublishesNow(r, "party_box_completed") =>
                /\ req[r].id[1] \in DOMAIN outgoing
                /\ outgoing[req[r].id[1]] = req[r].response[1]]_vars

C13_Witness ==
    \E r \in Requests :
        /\ req[r].pc = "done" /\ PackageReturned(r)
        /\ CountOf(req[r].pubs, "party_box_completed") = 1
        /\ req[r].id[1] \in DOMAIN outgoing
        /\ req[r].cache_key[1] \in DOMAIN cache

\* What is stored for a request: its outgoing record and its cache entry
WritesOf(r) ==
    << IF req[r].id[1] \in DOMAIN outgoing THEN << outgoing[req[r].id[1]] >> ELSE <<>>,
       IF req[r].cache_key[1] \in DOMAIN cache THEN << cache[req[r].cache_key[1]] >> ELSE <<>> >>

\* C14: making any subset of a request's notification publishes fail changes
\* neither the outcome of receive nor the store and cache writes made for
\* the request: of two requests alike but for the failing publishes, both
\* return a Package or both raise the same error from the same cause, both
\* or neither have an outgoing record and a cache entry, and with the same
\* Responses collected their Packages and their records are equal.
C14_PublishFailuresUnseen ==
    ( /\ req[1].pc = "done" /\ req[2].pc = "done"
      /\ req[2].env = << TwinOf(req[1].env[1]) >> )
    => /\ req[1].outcome[1].kind = req[2].outcome[1].kind
       /\ req[1].outcome[1].from = req[2].outcome[1].from
       /\ req[1].outcome[1].kind = "error"
            => req[1].outcome[1].value = req[2].outcome[1].value
       /\ WritesOf(1)[1] = <<>> <=> WritesOf(2)[1] = <<>>
       /\ WritesOf(1)[2] = <<>> <=> WritesOf(2)[2] = <<>>
       /\ req[1].result = req[2].result
            => /\ req[1].outcome = req[2].outcome
               /\ WritesOf(1) = WritesOf(2)

C14_Witness ==
    /\ req[1].pc = "done" /\ req[2].pc = "done"
    /\ req[2].env = << TwinOf(req[1].env[1]) >>
    /\ req[2].pub_faults = {"party_box_received", "party_box_completed"}
    /\ req[1].pubs = << "party_box_received", "party_box_completed" >>
    /\ req[2].pubs = <<>>
    /\ AnsweredByPipeline(1) /\ AnsweredByPipeline(2)
    /\ PackageOf(1) = PackageOf(2)
    /\ WritesOf(1) = WritesOf(2) /\ WritesOf(1)[1] # <<>> /\ WritesOf(1)[2] # <<>>

\* C15: every request rejected by validation has a `security_failed`
\* notification published for it before the error is surfaced (the pub/sub
\* service being reachable all along).
C15_RejectionAnnounced ==
    \A r \in Requests :
        Rejected(r) /\ req[r].pc = "done" /\ redisUp =>
            CountOf(req[r].pubs, "party_box_security_failed") >= 1

\* A rejected request, the service reachable, with nothing published after
\* `received` but `error`
C15_RejectionAnnouncedAsError ==
    \E r \in Requests :
        /\ Rejected(r) /\ req[r].pc = "done" /\ redisUp
        /\ req[r].pubs = << "party_box_received", "party_box_error" >>

\* What a stage or a store write raises
StageFailures ==
    { "UnloadingError", "OffloadingError", "OSError", "IndexError", "UnboundLocalError" }

Raised(r, stage) == CountOf(req[r].trace, << stage, "raise" >>) >= 1

StageOrStoreFailed(r) ==
    \/ \E stage \in {"Unpack", "Collaborate", "Package"} : Raised(r, stage)
    \/ req[r].exc = "OSError"

C17_ContextIsEarlierResponses ==
    \A r \in Requests :
        req[r].run # <<>> =>
            LET run == req[r].run[1] IN
            /\ Len(run.handed) = Len(run.camper_responses)
            /\ \A k \in 1..Len(run.handed) :
                 run.handed[k] = SubSeq(run.camper_responses, 1, k - 1)

C17_Witness ==
    \E r \in Requests :
        /\ req[r].run # <<>>
        /\ req[r].pc = "done"
        /\ Len(req[r].run[1].handed) = 3
        /\ Len(req[r].run[1].handed[3]) = 2
        /\ req[r].run[1].handed[3][1].camper_role = "RequirementsGatherer"
        /\ req[r].run[1].handed[3][2].camper_role = "BackEndDev"
        /\ req[r].run[1].camper_responses[3].camper_role = "Auditor"

RegisteredRoles(run) ==
    {j \in 1..Len(run.sequence) : run.sequence[j] \in DOMAIN run.campfire.campers}

WorkerFailed(r) ==
    req[r].run # <<>> /\ \E k \in 1..Len(req[r].run[1].outs) : req[r].run[1].outs[k] = "error"

NoWorkflowFor(r) ==
    /\ active_campfire # <<>>
    /\ req[r].env[1].claim \notin DOMAIN active_campfire[1].workflows

\* C19: when no Workflow is defined for a request, the Collaborate stage
\* returns exactly one Response: that of a single default role if a Worker
\* is registered, and a system-level "no workers available" Response,
\* without failing, if none is.
C19_NoWorkflowOneResponse ==
    \A r \in Requests :
        ( /\ Invoked(r, "Collaborate")
          /\ req[r].pc # "campers"
          /\ NoWorkflowFor(r) )
        => /\ req[r].result # <<>>
           /\ Len(req[r].result[1].camper_responses) = 1
           /\ IF DOMAIN active_campfire[1].campers = {}
              THEN req[r].result[1].camper_responses[1].camper_role = "System"
              ELSE req[r].result[1].camper_responses[1].camper_role
                      \in DOMAIN active_campfire[1].campers

\* A request without a workflow, under a campfire without campers, whose
\* Collaborate stage raised
C19_NoWorkersRaises ==
    \E r \in Requests :
        /\ req[r].pc = "done"
        /\ NoWorkflowFor(r)
        /\ DOMAIN active_campfire[1].campers = {}
        /\ Raised(r, "Collaborate")
        /\ req[r].result = <<>>
        /\ req[r].exc = "IndexError"
        /\ req[r].outcome[1].value = "riverboat_system.RiverboatProcessingError"

\* A request without a workflow answered by the one Response of the default role
C19_DefaultRoleAnswers ==
    \E r \in Requests :
        /\ req[r].pc = "done" /\ AnsweredByPipeline(r)
        /\ NoWorkflowFor(r)
        /\ Len(PackageOf(r).results.camper_responses) = 1
        /\ PackageOf(r).results.camper_responses[1].camper_role = "BackEndDev"

GateFields == {"publication_blocked", "block_reason"}

\* The response after the gate is the response before it, but for the two
\* fields the gate may set
SameButGateFields(before, after) ==
    /\ DOMAIN before \subseteq DOMAIN after
    /\ DOMAIN after \subseteq DOMAIN before \cup GateFields
    /\ \A f \in DOMAIN before \ GateFields : after[f] = before[f]

SameListButGateFields(before, after) ==
    /\ Len(after) = Len(before)
    /\ \A i \in 1..Len(before) : SameButGateFields(before[i], after[i])

\* C20 as stated: the Audit Gate changes nothing in the collected Response
\* list except setting publicationBlocked and blockReason: it adds no
\* Response, removes or reorders none, changes no other field.
C20_GateOnlySetsFlagsAsStated ==
    /\ \A r \in GenericRuns :
         SameListButGateFields(req[r].run[1].camper_responses,
                               req[r].result[1].camper_responses)
    /\ (devteam.result # <<>> /\ devteam.result[1].ollama_available) =>
         SameListButGateFields(devteam.collected, devteam.result[1].camper_responses)

\* C20, amended: the gate of the manifest-driven campfire changes nothing in
\* the collected list but the two fields; the gate step of the DevTeam
\* campfire (claims other than review_code) appends one Response, the
\* Auditor's audit summary, after the collected ones, and changes nothing in
\* the collected ones but the two fields.
C20_GateKeepsCollected ==
    /\ \A r \in GenericRuns :
         SameListButGateFields(req[r].run[1].camper_responses,
                               req[r].result[1].camper_responses)
    /\ (devteam.result # <<>> /\ devteam.result[1].ollama_available) =>
         LET after == devteam.result[1].camper_responses
             n == Len(devteam.collected)
         IN IF devteam.claim = "review_code"
            THEN after = devteam.collected
            ELSE /\ Len(after) = n + 1
                 /\ SameListButGateFields(devteam.collected, SubSeq(after, 1, n))
                 /\ after[n + 1].camper_role = "Auditor"
                 /\ "audit_gate" \in DOMAIN after[n + 1]
                 /\ DOMAIN after[n + 1] \cap GateFields = {}

C20_Witness ==
    \E r \in GenericRuns :
        /\ GateStatus(req[r].result[1]) = "BLOCKED"
        /\ req[r].result[1].camper_responses # req[r].run[1].camper_responses
        /\ \E i \in 1..Len(req[r].result[1].camper_responses) :
             /\ IsBlocked(req[r].result[1].camper_responses[i])
             /\ req[r].result[1].camper_responses[i].files_to_create # <<>>
             /\ req[r].result[1].camper_responses[i].files_to_create
                  = req[r].run[1].camper_responses[i].files_to_create

InFlight(r) == req[r].pc \notin {"idle", "done"}

\* C21: no two requests are ever assigned the same store id, two concurrent
\* requests with identical content stored at the same clock reading included.
C21_StoreIdsUnique ==
    \A a, b \in Requests :
        (a # b /\ req[a].id # <<>> /\ req[b].id # <<>>) => req[a].id # req[b].id

\* Two concurrent requests of identical content, stored at the same clock
\* reading, hold one id and left one incoming record.
C21_TwinsShareId ==
    \E a, b \in Requests :
        /\ a # b
        /\ InFlight(a) /\ InFlight(b)
        /\ req[a].id # <<>> /\ req[a].id = req[b].id
        /\ req[a].env = req[b].env
        /\ Cardinality(DOMAIN incoming) = 1

\* C22: once a persist call has written the record and the metadata of an
\* id, no later persist call changes them: the incoming payload and its
\* metadata (direction, timestamp, checksum, size) stay as written.
C22_StoredRecordNeverMutated ==
    [][\A id \in DOMAIN metadata :
          /\ id \in DOMAIN metadata' => metadata'[id] = metadata[id]
          /\ (id \in DOMAIN incoming /\ id \in DOMAIN incoming') => incoming'[id] = incoming[id]]_vars

\* An incoming record is still stored, and the metadata of its id describes
\* the outgoing record.
C22_IncomingMetadataReplaced ==
    \E r \in Requests :
        /\ CompletedWithPackage(r) /\ AnsweredByPipeline(r)
        /\ req[r].id[1] \in DOMAIN incoming
        /\ metadata[req[r].id[1]].direction = "outgoing"
        /\ metadata[req[r].id[1]].checksum # Checksum(incoming[req[r].id[1]])

\* What a registry holds that was loaded from these files and nothing else
LoadedFrom(files) == load_all_campfires(<<>>, files)

\* C23: a reload replaces the set of campfires as a whole: whoever looks at
\* the registry sees the complete old set or the complete new set, never a
\* mixture of the two.
C23_ReloadReplacesSet ==
    [][call'.op = "initialize_campfires"
         => campfires' \in {campfires, LoadedFrom(call'.arg)}]_vars

\* After a reload the registry holds a campfire that no file of the
\* reloaded directory defines, next to one that was just loaded.
C23_ReloadLeftMixture ==
    /\ call.op = "initialize_campfires"
    /\ \E i, j \in 1..Len(campfires) :
         /\ campfires[i].name \notin Range(list_campfires(LoadedFrom(call.arg)))
         /\ campfires[j].name \in Range(list_campfires(LoadedFrom(call.arg)))
    /\ active_campfire # get_default_campfire(LoadedFrom(call.arg))

TimedOut(r) ==
    /\ req[r].outcome # <<>>
    /\ req[r].outcome[1].kind = "error"
    /\ req[r].outcome[1].value = "OPERATION_TIMEOUT"

\* C24: when the deadline expires on a request in flight, the request is
\* aborted with a Timeout error, and afterwards the store holds the incoming
\* record of the request and no outgoing record for its id.
C24_TimeoutLeavesIncomingOnly ==
    \A r \in Requests :
        TimedOut(r) =>
            /\ req[r].pc = "done"
            /\ req[r].id # <<>>
            /\ req[r].id[1] \in DOMAIN incoming
            /\ req[r].id[1] \notin DOMAIN outgoing

\* The deadline expired while the completion was being published: the
\* caller got the Timeout error, the response is stored and cached.
C24_TimedOutAfterOutgoing ==
    \E r \in Requests :
        /\ TimedOut(r)
        /\ req[r].response # <<>>
        /\ req[r].id[1] \in DOMAIN outgoing
        /\ outgoing[req[r].id[1]] = req[r].response[1]
        /\ req[r].pubs = << "party_box_received" >>

\* The deadline expired before the response was stored
C24_TimedOutBeforeOutgoing ==
    \E r \in Requests :
        /\ TimedOut(r)
        /\ req[r].id[1] \in DOMAIN incoming
        /\ req[r].id[1] \notin DOMAIN outgoing
        /\ req[r].run # <<>>

\* C25 as stated: of two requests with the same fingerprint that run
\* concurrently, each returns the Package it computed itself.
C25_ConcurrentTwinsComputeOwn ==
    [][\A a, b \in Requests :
          ( /\ a # b
            /\ InFlight(a) /\ InFlight(b)
            /\ SameFingerprint(a, b)
            /\ req'[a].pc = "done"
            /\ req'[a].outcome[1].kind = "package" )
          => /\ req'[a].outcome[1].from = "pipeline"
             /\ req'[a].outcome[1].value = req'[a].response[1]]_vars

\* C25: of two requests with the same fingerprint that both miss the cache,
\* each one that completes returns the Package it computed itself, and once
\* both have completed the cache holds the Package of the one that wrote last.
C25_RacersLastWriterWins ==
    \A a, b \in Requests :
        ( /\ a # b
          /\ req[a].pc = "done" /\ req[b].pc = "done"
          /\ SameFingerprint(a, b)
          /\ AnsweredByPipeline(a) /\ AnsweredByPipeline(b)
          /\ req[a].wrote < req[b].wrote )
        => /\ PackageOf(a) = req[a].response[1]
           /\ PackageOf(b) = req[b].response[1]
           /\ req[b].cache_key[1] \in DOMAIN cache
           /\ cache[req[b].cache_key[1]].value = req[b].response[1]

\* Two requests of one fingerprint were in flight at the same clock reading,
\* both missed the cache and computed different Packages, and the cache holds
\* the Package of the later writer.
C25_Witness ==
    \E a, b \in Requests :
        /\ a # b
        /\ req[a].pc = "done" /\ req[b].pc = "done"
        /\ SameFingerprint(a, b)
        /\ AnsweredByPipeline(a) /\ AnsweredByPipeline(b)
        /\ 0 < req[a].wrote /\ req[a].wrote < req[b].wrote
        /\ PackageOf(a).processed_at = PackageOf(b).processed_at
        /\ PackageOf(a) # PackageOf(b)
        /\ cache[req[b].cache_key[1]].value = PackageOf(b)

\* C26: a failure inside receive or one of its stages, other than that of a
\* notification publish, is surfaced to the caller of receive as an error:
\* no request in which a helper logged and dropped an exception is answered
\* with a Package.
C26_FailuresSurface ==
    \A r \in Requests :
        req[r].pc = "done" /\ req[r].swallowed # {} => req[r].outcome[1].kind = "error"

\* A request whose cache read and cache write both raised, whose context was
\* not stored, and which was answered with the Package of its pipeline
C26_FailuresSwallowed ==
    \E r \in Requests :
        /\ req[r].pc = "done"
        /\ req[r].swallowed =
             {"_process_party_box_context", "_get_cached_response", "_cache_response"}
        /\ req[r].outcome[1].kind = "package"
        /\ req[r].outcome[1].from = "pipeline"
        /\ req[r].id[1] \in DOMAIN outgoing
        /\ req[r].cache_key[1] \notin DOMAIN cache

\* C27: after any sequence of recorded errors the error history holds at
\* most max_history_size entries, and they are the most recently recorded
\* errors, in the order in which they were recorded.
C27_HistoryHoldsMostRecent ==
    LET history == error_handler.error_history
        recorded == Tracked(error_handler)
    IN  /\ Len(history) <= max_history_size
        /\ Len(history) = IF recorded < max_history_size THEN recorded ELSE max_history_size
        /\ \A i \in 1..Len(history) : history[i].serial = recorded - Len(history) + i

\* A full history from which the two oldest errors, both timeouts, are gone
C27_Witness ==
    /\ Tracked(error_handler) = max_history_size + 2
    /\ Len(error_handler.error_history) = max_history_size
    /\ DictGet(error_handler.error_counts, "OPERATION_TIMEOUT", 0) = 2
    /\ error_handler.error_history[1].serial = 3
    /\ \A i \in 1..max_history_size :
         error_handler.error_history[i].code # "OPERATION_TIMEOUT"

\* The stored records older than days_old days
OlderThan(days_old) ==
    { id \in DOMAIN metadata : metadata[id].timestamp < clock - days_old * SecondsPerDay }

\* C28: purge(maxAgeDays) deletes every stored record older than maxAgeDays
\* and no younger one, and returns the number of records it deleted,
\* whatever the number of stored records.
C28_PurgeDeletesEveryOldRecord ==
    [][ call'.op = "cleanup_old_party_boxes" =>
          /\ DOMAIN metadata' = DOMAIN metadata \ OlderThan(call'.arg)
          /\ DOMAIN incoming' = DOMAIN incoming \ OlderThan(call'.arg)
          /\ call'.result = Cardinality(OlderThan(call'.arg)) ]_vars

\* A purge of records older than a day that deleted ListLimit records and
\* left a record that is ten days old
C28_OldRecordSurvivedPurge ==
    /\ call.op = "cleanup_old_party_boxes"
    /\ call.arg = 1
    /\ call.result = ListLimit
    /\ OlderThan(1) # {}
    /\ OlderThan(1) \subseteq DOMAIN incoming

\* C29: set_active_campfire(name) returns true and makes the campfire of
\* that name the active one exactly when the name is registered; otherwise
\* it returns false and leaves the active campfire as it was.  The registry
\* is the same after the call.
C29_SetActiveIffRegistered ==
    [][ call'.op = "set_active_campfire" =>
          LET registered == get_campfire(campfires, call'.arg) IN
          /\ call'.result = (\E i \in 1..Len(campfires) : campfires[i].name = call'.arg)
          /\ call'.result = (registered # <<>>)
          /\ IF call'.result
             THEN active_campfire' = registered /\ active_campfire'[1].name = call'.arg
             ELSE active_campfire' = active_campfire
          /\ campfires' = campfires ]_vars

\* A switch from the default campfire to another registered one, accepted
C29_Witness ==
    /\ call.op = "set_active_campfire"
    /\ call.result = TRUE
    /\ active_campfire # <<>>
    /\ active_campfire[1].name = call.arg
    /\ active_campfire # get_default_campfire(campfires)
    /\ Len(campfires) = 2

\* The rule categories with a match in what the Validate stage scanned: the
\* task text and the contents of the unpacked record
MatchedCategories(u) ==
    u.task_assertions.cats
    \cup UNION { u.file_contents[p].cats : p \in DOMAIN u.file_contents }

ErrorCategories == {"code_injection", "dangerous_commands", "sensitive_data", "path_traversal"}
WarningCategories == {"network_access", "file_system"}

\* C30: the verdict is secure exactly when no check produced an error; a
\* match in an error category (injection, dangerous command, sensitive data,
\* path traversal) makes it not secure, as does an error of the path
\* traversal or workspace boundary check; a match in warning categories only
\* (network access, filesystem access) is recorded as a warning and, no other
\* check failing, leaves it secure.
C30_SecureIffNoError ==
    \A r \in Requests :
        req[r].validated # <<>> =>
            LET v == req[r].validated[1]
                matched == MatchedCategories(req[r].unpacked[1])
            IN  /\ v.secure = (Len(v.errors) = 0)
                /\ matched \cap ErrorCategories # {} => ~v.secure
                /\ \A c \in matched \cap WarningCategories :
                     \E i \in 1..Len(v.warnings) : v.warnings[i].kind = c
                /\ ( /\ matched \subseteq WarningCategories
                     /\ \A i \in 1..Len(v.errors) : v.errors[i].check = "dangerous_patterns" )
                   => v.secure

\* An attachment whose content holds a path traversal sequence and nothing
\* else of note, judged secure without an error or a warning
C30_TraversalInContentSecure ==
    \E r \in Requests :
        /\ req[r].validated # <<>>
        /\ MatchedCategories(req[r].unpacked[1]) = {"path_traversal"}
        /\ req[r].unpacked[1].task_assertions.cats = {}
        /\ req[r].validated[1].secure
        /\ req[r].validated[1].errors = <<>>
        /\ req[r].validated[1].warnings = <<>>

\* The rule categories matched by the task text and by the content of any
\* attachment of the envelope, as submitted
SubmittedCategories(env) ==
    env.task.cats \cup UNION { env.attachments[i].content.cats : i \in 1..Len(env.attachments) }

\* C31: the Validate stage checks the content of every attachment of the
\* envelope and the task text: an envelope in which the content of any
\* attachment, one of several that share a path included, matches a pattern
\* of a category that the scan reports as an error is never judged secure.
C31_EveryAttachmentScanned ==
    \A r \in Requests :
        req[r].validated # <<>> =>
            ( (\E c \in SubmittedCategories(req[r].env[1]) : PatternVerdict(c) = "error")
                => ~req[r].validated[1].secure )

\* An envelope whose first attachment holds an injection construct and whose
\* second attachment, under the same path, is clean, judged secure
C31_ShadowedAttachmentUnscanned ==
    \E r \in Requests :
        /\ req[r].validated # <<>>
        /\ Len(req[r].env[1].attachments) = 2
        /\ req[r].env[1].attachments[1].path = req[r].env[1].attachments[2].path
        /\ req[r].env[1].attachments[1].content.cats = {"code_injection"}
        /\ req[r].env[1].attachments[2].content.cats = {}
        /\ req[r].validated[1].secure
        /\ req[r].validated[1].errors = <<>>

\* The files (field "files_to_create") or the commands ("commands_to_execute")
\* of the first n of the responses, one Response after the other
RECURSIVE Gathered(_, _, _)
Gathered(responses, field, n) ==
    IF n = 0 THEN <<>> ELSE Gathered(responses, field, n - 1) \o responses[n][field]

\* C32: in every Package filesToCreate and commandsToExecute are the
\* concatenations, in Response order, of the lists of the Responses, and the
\* processing summary reports the number of Responses, the lengths of the
\* two lists and the number of Responses of type suggestion.
C32_PackageGathersResponses ==
    \A r \in Requests :
        req[r].response # <<>> =>
            LET responses == req[r].result[1].camper_responses
                results == req[r].response[1].results
                summary == results.processing_summary
            IN  /\ results.files_to_create =
                     Gathered(responses, "files_to_create", Len(responses))
                /\ results.commands_to_execute =
                     Gathered(responses, "commands_to_execute", Len(responses))
                /\ summary.total_campers = Len(responses)
                /\ summary.files_generated = Len(results.files_to_create)
                /\ summary.commands_generated = Len(results.commands_to_execute)
                /\ summary.suggestions_generated =
                     Cardinality({ i \in 1..Len(responses) :
                                     responses[i].response_type = "suggestion" })

\* A Package returned for three Responses of three types, the first with
\* two files and no command, the last with one file and two commands
C32_Witness ==
    \E r \in Requests :
        /\ req[r].pc = "done"
        /\ req[r].outcome[1].kind = "package"
        /\ Len(req[r].result[1].camper_responses) = 3
        /\ req[r].result[1].camper_responses[1].response_type = "code"
        /\ req[r].result[1].camper_responses[2].response_type = "suggestion"
        /\ req[r].result[1].camper_responses[3].response_type = "command"
        /\ Len(req[r].result[1].camper_responses[1].files_to_create) = 2
        /\ PackageOf(r).results.processing_summary =
             [ total_campers |-> 3, files_generated |-> 3, commands_generated |-> 2,
               suggestions_generated |-> 1 ]
        /\ PackageOf(r).results.files_to_create[3].path = << "Dockerfile" >>

\* How many of the calls of a DevTeam run went to the camper of the role
CallsOn(role) ==
    Cardinality({ i \in 1..Len(devteam.calls) : devteam.calls[i].role = role })

C34_PackageOnlyAfterValidation ==
    \A r \in Requests :
        (req[r].pc = "done" /\ req[r].outcome[1].kind = "package") =>
            /\ req[r].validated # <<>>
            /\ req[r].validated[1].secure

\* A request answered with the cached Package of an earlier request of the
\* same claim and task, whose own envelope was never validated and would
\* have been rejected
C34_UnvalidatedEnvelopeAnswered ==
    \E r \in Requests :
        /\ req[r].pc = "done"
        /\ req[r].outcome[1].kind = "package"
        /\ req[r].outcome[1].from = "cache"
        /\ req[r].validated = <<>>
        /\ req[r].trace = <<>>
        /\ ~SecurityProcess(Unpack(req[r].env[1], clock), fs_links).secure
        /\ \E q \in Requests :
             /\ q # r
             /\ SameFingerprint(q, r)
             /\ req[q].env[1] # req[r].env[1]
             /\ req[q].validated # <<>> /\ req[q].validated[1].secure

\* An id under which nothing was ever stored: no record is written before
\* time 0
UnknownId == generate_party_box_id(PurgedEnvelope, 0 - 1)

\* C35: get_party_box_status(id) reports completed exactly when an outgoing
\* Package has been persisted for id, reports processing when only the
\* incoming record exists, so that a rejected, failed or timed-out request
\* never shows completed, and returns nothing for an unknown id.
C35_StatusFollowsStore ==
    /\ \A id \in DOMAIN incoming \cup DOMAIN outgoing :
         /\ get_party_box_status(id) # <<>>
         /\ (get_party_box_status(id)[1].status = "completed") = (id \in DOMAIN outgoing)
         /\ id \notin DOMAIN outgoing => get_party_box_status(id)[1].status = "processing"
    /\ \A r \in Requests :
         (req[r].pc = "done" /\ req[r].id # <<>> /\ req[r].outcome[1].kind = "error") =>
             get_party_box_status(req[r].id[1])[1].status # "completed"
    /\ get_party_box_status(UnknownId) = <<>>

\* A request that ended with the timeout error and whose status is completed
C35_TimedOutShowsCompleted ==
    \E r \in Requests :
        /\ TimedOut(r)
        /\ req[r].outcome[1].value = "OPERATION_TIMEOUT"
        /\ get_party_box_status(req[r].id[1]) # <<>>
        /\ get_party_box_status(req[r].id[1])[1].status = "completed"

\* The Collaborate stage of request r ran a configured workflow to its end
WorkflowRunEnded(r) ==
    /\ req[r].run # <<>>
    /\ req[r].run[1].workflow # <<>>
    /\ req[r].pc \notin {"idle", "campers"}
    /\ \/ Raised(r, "Collaborate")
       \/ CountOf(req[r].trace, << "Collaborate", "return" >>) >= 1

GateWithoutAuditor(r) ==
    /\ req[r].run[1].workflow[1].auditGate
    /\ "Auditor" \notin DOMAIN req[r].run[1].campfire.campers

\* C36: the Collaborate stage returns a Response list with a gate status for
\* every workflow configuration; for a workflow with auditGate set while no
\* Auditor Worker is registered it completes without error, reports PASSED
\* and alters no Response.
C36_GateStatusForEveryWorkflow ==
    \A r \in Requests :
        WorkflowRunEnded(r) =>
            /\ ~Raised(r, "Collaborate")
            /\ req[r].result # <<>>
            /\ req[r].result[1].workflow_metadata.audit_gate_status \in {"PASSED", "BLOCKED"}
            /\ GateWithoutAuditor(r) =>
                 /\ req[r].result[1].workflow_metadata.audit_gate_status = "PASSED"
                 /\ req[r].result[1].camper_responses = req[r].run[1].camper_responses

\* A workflow with auditGate and no Auditor Worker whose Collaborate stage
\* raised, the request ending with a Processing error
C36_GateWithoutAuditorRaises ==
    \E r \in Requests :
        /\ req[r].pc = "done"
        /\ WorkflowRunEnded(r)
        /\ GateWithoutAuditor(r)
        /\ Raised(r, "Collaborate")
        /\ req[r].exc = "UnboundLocalError"
        /\ req[r].result = <<>>
        /\ req[r].outcome[1].value = "riverboat_system.RiverboatProcessingError"

\* The workflows that return have a gate status
C36_OtherWorkflowsHaveGateStatus ==
    \A r \in Requests :
        (WorkflowRunEnded(r) /\ ~GateWithoutAuditor(r)) =>
            /\ ~Raised(r, "Collaborate")
            /\ req[r].result[1].workflow_metadata.audit_gate_status \in {"PASSED", "BLOCKED"}

\* The sequence of the workflow request r ran names a role without a camper
SequenceNamesUnregistered(r) ==
    \E i \in 1..Len(req[r].run[1].sequence) :
        req[r].run[1].sequence[i] \notin DOMAIN req[r].run[1].campfire.campers

RegisteredIn(r, role) == role \in DOMAIN req[r].run[1].campfire.campers

RolesOf(responses) == [i \in 1..Len(responses) |-> responses[i].camper_role]

\* C37: a role named in a workflow sequence that is not a registered Worker
\* is skipped without failing the run: the remaining roles still run in
\* sequence order, and the metadata's collaboration_steps and
\* campers_involved equal the number and the roles of the Responses
\* actually collected.
C37_UnregisteredRoleSkipped ==
    \A r \in Requests :
        (WorkflowRunEnded(r) /\ SequenceNamesUnregistered(r)) =>
            /\ ~Raised(r, "Collaborate")
            /\ req[r].result # <<>>
            /\ LET res == req[r].result[1]
                   registered(role) == RegisteredIn(r, role)
               IN /\ RolesOf(res.camper_responses)
                       = SelectSeq(req[r].run[1].sequence, registered)
                  /\ res.workflow_metadata.collaboration_steps = Len(res.camper_responses)
                  /\ res.workflow_metadata.campers_involved = RolesOf(res.camper_responses)

\* A run whose sequence names the unregistered Tester, under a workflow with
\* auditGate and without an Auditor, that failed after BackEndDev had answered
C37_SkippingRunFailed ==
    \E r \in Requests :
        /\ req[r].pc = "done"
        /\ WorkflowRunEnded(r) /\ SequenceNamesUnregistered(r)
        /\ GateWithoutAuditor(r)
        /\ RolesOf(req[r].run[1].camper_responses) = << "BackEndDev" >>
        /\ Raised(r, "Collaborate")
        /\ req[r].outcome[1].kind = "error"

\* Where the gate does not raise, the unregistered role is skipped as the
\* claim says
C37_SkippedWhereGateReturns ==
    \A r \in Requests :
        (WorkflowRunEnded(r) /\ SequenceNamesUnregistered(r) /\ ~GateWithoutAuditor(r)) =>
            /\ ~Raised(r, "Collaborate")
            /\ LET res == req[r].result[1]
                   registered(role) == RegisteredIn(r, role)
               IN /\ RolesOf(res.camper_responses)
                       = SelectSeq(req[r].run[1].sequence, registered)
                  /\ res.workflow_metadata.collaboration_steps = Len(res.camper_responses)
                  /\ res.workflow_metadata.campers_involved = RolesOf(res.camper_responses)

\* A run that skipped Tester between two campers and returned
C37_SkippedAndReturned ==
    \E r \in Requests :
        /\ WorkflowRunEnded(r) /\ ~Raised(r, "Collaborate")
        /\ req[r].run[1].sequence = << "BackEndDev", "Tester", "Auditor" >>
        /\ req[r].result[1].workflow_metadata.campers_involved = << "BackEndDev", "Auditor" >>

\* The active campfire is absent or what the registry now holds under a
\* registered name
ActiveIsRegistered ==
    \/ active_campfire = <<>>
    \/ \E i \in 1..Len(campfires) : active_campfire = << campfires[i] >>

\* C38: after any sequence of load, reload and set_active_campfire
\* operations the registry holds exactly the campfires of the most recently
\* loaded configuration, and the active campfire is either absent or the
\* registry's current definition of a registered name, so that requests
\* received after a reload run the reloaded definition.
C38_RegistryIsLastLoaded ==
    [][ /\ call'.op = "initialize_campfires" => campfires' = LoadedFrom(call'.arg)
        /\ call'.op = "set_active_campfire" => campfires' = campfires
        /\ ActiveIsRegistered' ]_vars

\* After a reload of a directory that defines campfires, the active campfire,
\* which the next request runs, is one that the directory no longer defines
C38_ActiveNotInReloaded ==
    /\ call.op = "initialize_campfires"
    /\ LoadedFrom(call.arg) # <<>>
    /\ campfires # LoadedFrom(call.arg)
    /\ active_campfire # <<>>
    /\ active_campfire[1].name \notin Range(list_campfires(LoadedFrom(call.arg)))

\* The active campfire is always the registry's current definition of its name
C38_ActiveIsCurrentDefinition == ActiveIsRegistered

\* The cache read of request r was made and raised
CacheReadFailed(r) ==
    /\ redisUp /\ "cache_get" \in req[r].faults
    /\ req[r].cache_key # <<>>
    /\ req[r].pc \notin {"idle", "cache_get"}

\* The cache write of request r was made and raised
CacheWriteFailed(r) ==
    /\ redisUp /\ "cache_set" \in req[r].faults
    /\ req[r].response # <<>>
    /\ req[r].pc \notin {"idle", "cache_set"}

\* What request r ends with when the cache answers nothing and nothing else
\* fails: the Security error for an envelope the Validate stage rejects, the
\* Package of the pipeline otherwise
EndsAsOnMiss(r) ==
    IF Raised(r, "Validate")
    THEN req[r].outcome[1].kind = "error"
    ELSE /\ AnsweredByPipeline(r)
         /\ Invoked(r, "Unpack") /\ Invoked(r, "Collaborate") /\ Invoked(r, "Package")
         /\ req[r].id[1] \in DOMAIN outgoing
         /\ outgoing[req[r].id[1]] = PackageOf(r)

\* C39: a failure of the cache service never changes the outcome of
\* receive_party_box: a failed cache read is treated as a miss and the full
\* pipeline runs, and a failed cache write still lets the request store the
\* outgoing record and return the Package.
C39_CacheFailureKeepsOutcome ==
    \A r \in Requests :
        /\ CacheReadFailed(r) =>
             /\ ~AnsweredFromCache(r)
             /\ req[r].pc # "except" \/ req[r].exc # "RuntimeError"
        /\ CacheWriteFailed(r) => req[r].pc # "except" \/ req[r].exc # "RuntimeError"
        /\ ( /\ req[r].pc = "done"
             /\ CacheReadFailed(r) \/ CacheWriteFailed(r)
             /\ req[r].faults \subseteq {"cache_get", "cache_set"} )
           => EndsAsOnMiss(r)

\* A request whose cache read failed although the cache held an entry for
\* its key, whose cache write failed too, and that returned the Package of
\* the pipeline and stored it
C39_Witness ==
    \E r \in Requests :
        /\ req[r].pc = "done"
        /\ CacheReadFailed(r) /\ CacheWriteFailed(r)
        /\ get_cached_response(req[r].cache_key[1]) # <<>>
        /\ AnsweredByPipeline(r)
        /\ Invoked(r, "Collaborate")
        /\ outgoing[req[r].id[1]] = PackageOf(r)
        /\ PackageOf(r) # JsonRoundTrip(EarlierPackage)

ErrorOutcomes ==
    { "riverboat_system.SecurityValidationError",
      "riverboat_system.RiverboatProcessingError", "OPERATION_TIMEOUT" }

\* Request r has ended with one outcome: a Package, a Security error, a
\* Processing error or a Timeout error
Terminal(r) ==
    /\ req[r].pc = "done"
    /\ Len(req[r].outcome) = 1
    /\ \/ req[r].outcome[1].kind = "package"
       \/ req[r].outcome[1].kind = "error" /\ req[r].outcome[1].value \in ErrorOutcomes

Occurrences(seq, x) == Cardinality({i \in 1..Len(seq) : seq[i] = x})

\* Each role of the sequence was invoked at most as often as the sequence
\* names it, and no camper was invoked otherwise
AtMostOneInvocationPerRole(r) ==
    IF req[r].run = <<>> THEN req[r].gen_calls = 0
    ELSE LET run == req[r].run[1] IN
         /\ req[r].gen_calls = Len(run.camper_responses)
         /\ \A role \in Range(run.sequence) \cup Range(RolesOf(run.camper_responses)) :
              Occurrences(RolesOf(run.camper_responses), role) <= Occurrences(run.sequence, role)

\* C40: every call to receive_party_box eventually reaches exactly one
\* terminal outcome (a Package, a Security error, a Processing error or a
\* Timeout error), provided every external call eventually returns or fails
\* or the deadline of the request fires; the Collaborate stage makes at most
\* one Worker invocation per role of the workflow sequence.
C40_EveryRequestTerminates ==
    /\ \A r \in Requests : (req[r].pc # "idle") ~> Terminal(r)
    /\ [][\A r \in Requests : Terminal(r) => req'[r] = req[r]]_vars
    /\ [](\A r \in Requests : AtMostOneInvocationPerRole(r))

\* A request that ended with a Package after each of the three roles of its
\* sequence was invoked once
C40_Witness ==
    \E r \in Requests :
        /\ Terminal(r) /\ AnsweredByPipeline(r)
        /\ req[r].run[1].sequence = << "RequirementsGatherer", "BackEndDev", "Auditor" >>
        /\ req[r].gen_calls = 3
        /\ AtMostOneInvocationPerRole(r)
=============================================================================
